---- MODULE Spec2Model ----
(***************************************************************************)
(* Combinational equivalence checker: circuit IR (circuit/circuit.py),     *)
(* CNF algebra and solver binding (circuit/cnf.py), gate encodings         *)
(* (adder.py), Tseitin transformation (transform.py) and the miter driver  *)
(* (ec.py).                                                                *)
(*                                                                         *)
(* Signal and variable names are strings; prefixing is string              *)
(* concatenation, so that two different roles receiving the same name is   *)
(* something the model can exhibit.                                        *)
(***************************************************************************)
EXTENDS Integers, Sequences, FiniteSets, TLC

VARIABLES nodeNextId, circ, vartable, satNextId, calls, last, heap, gen

vars == <<nodeNextId, circ, vartable, satNextId, calls, last, heap, gen>>

(***************************************************************************)
(* Bounds of the model.                                                    *)
(***************************************************************************)
\* Node.__nextid__ never exceeds this: no node is created past it.
MaxNodeId == 26
\* Number of transform()/check() calls of one session.
MaxCalls == 1

\* The most keys other than input names a dictionary given to simulate has.
MaxExtraKeys == 1
\* SatVar() is not called once SatVar.__nextid__ exceeds this.
MaxSatVars == 3
\* Number of Clause variables and of Cnf variables of a session of the CNF
\* algebra.
MaxClauseVars == 1
MaxCnfVars == 1
\* Length of a Clause a session builds with | and |=.
MaxLits == 3
\* Number of clauses of a Cnf a session builds with & and &=.
MaxClauses == 2

\* The circuit variables of a session (c1, c2).
Slots == {1, 2}

Range(s) == {s[i] : i \in DOMAIN s}

(***************************************************************************)
(* Circuit nodes (circuit/circuit.py, Node and its subclasses).            *)
(* A node is a record; id = -1 marks a node of a description that has not  *)
(* been created yet.                                                       *)
(***************************************************************************)
Literal(b) ==
  [type |-> "Literal", id |-> -1, value |-> b, name |-> "", op |-> "", kids |-> <<>>]

Variable(n) ==
  [type |-> "Variable", id |-> -1, value |-> FALSE, name |-> n, op |-> "", kids |-> <<>>]

UnOp(opstr, x) ==
  [type |-> "UnOp", id |-> -1, value |-> FALSE, name |-> "", op |-> opstr, kids |-> <<x>>]

BinOp(opstr, x, y) ==
  [type |-> "BinOp", id |-> -1, value |-> FALSE, name |-> "", op |-> opstr, kids |-> <<x, y>>]

\* Node.__init__: the node takes Node.__nextid__ and increments it.  The
\* children of a node are created before it (they are its constructor's
\* arguments).
RECURSIVE NodeInit(_, _)
NodeInit(e, next) ==
  CASE e.type \in {"Literal", "Variable"} ->
         [node |-> [e EXCEPT !.id = next], next |-> next + 1]
    [] e.type = "UnOp" ->
         LET k == NodeInit(e.kids[1], next)
         IN  [node |-> [e EXCEPT !.kids = <<k.node>>, !.id = k.next],
              next |-> k.next + 1]
    [] e.type = "BinOp" ->
         LET k1 == NodeInit(e.kids[1], next)
             k2 == NodeInit(e.kids[2], k1.next)
         IN  [node |-> [e EXCEPT !.kids = <<k1.node, k2.node>>, !.id = k2.next],
              next |-> k2.next + 1]

RECURSIVE NodeCount(_)
NodeCount(e) ==
  CASE e.type \in {"Literal", "Variable"} -> 1
    [] e.type = "UnOp" -> 1 + NodeCount(e.kids[1])
    [] e.type = "BinOp" -> 1 + NodeCount(e.kids[1]) + NodeCount(e.kids[2])

\* Node.support and its overrides.
RECURSIVE support(_)
support(nd) ==
  CASE nd.type = "Literal" -> {}
    [] nd.type = "Variable" -> {nd.name}
    [] nd.type = "UnOp" -> support(nd.kids[1])
    [] nd.type = "BinOp" -> support(nd.kids[1]) \cup support(nd.kids[2])

\* OpNode.getFun: the gate functions the parser attaches to the operator
\* strings (operator.and_, or_, xor, not_).
EvalBin(opstr, x, y) ==
  CASE opstr = "&" -> x /\ y
    [] opstr = "|" -> x \/ y
    [] opstr = "^" -> x # y

EvalUn(opstr, x) == ~x

(***************************************************************************)
(* A circuit description: the arguments of Circuit(name, inputs, outputs,  *)
(* eqs).  inputs and outputs are sequences of names, eqs a sequence of     *)
(* <<name, expression>> pairs.                                             *)
(***************************************************************************)
Desc(ins, outs, eqs) == [inputs |-> ins, outputs |-> outs, eqs |-> eqs]

RECURSIVE EqsNodeCount(_)
EqsNodeCount(eqs) ==
  IF eqs = <<>> THEN 0
  ELSE 1 + NodeCount(eqs[1][2]) + EqsNodeCount(Tail(eqs))

\* Nodes a caller creates to build the arguments of the constructor: one
\* Variable per input, per output and per left-hand side, and the expressions.
DescNodeCount(d) == Len(d.inputs) + Len(d.outputs) + EqsNodeCount(d.eqs)

RECURSIVE EqsInit(_, _)
EqsInit(eqs, next) ==
  IF eqs = <<>> THEN [eqs |-> <<>>, next |-> next]
  ELSE LET e == NodeInit(eqs[1][2], next + 1)
           r == EqsInit(Tail(eqs), e.next)
       IN  [eqs |-> <<<<eqs[1][1], e.node>>>> \o r.eqs, next |-> r.next]

\* The equations of a description with their nodes created, the first node
\* taking id `next`.
DescInit(d, next) == EqsInit(d.eqs, next + Len(d.inputs) + Len(d.outputs))

(***************************************************************************)
(* Circuit.__init__ and Circuit.check.                                     *)
(***************************************************************************)
NoCircuit == [inputs |-> {}, outputs |-> {}, keys |-> <<>>, equations |-> <<>>,
              valid |-> FALSE]

\* The keys of the dict built by `self.equations[x.name] = e`, in insertion
\* order (a key keeps its first position when assigned again).
RECURSIVE DictKeys(_)
DictKeys(eqs) ==
  IF eqs = <<>> THEN <<>>
  ELSE LET front == DictKeys(SubSeq(eqs, 1, Len(eqs) - 1))
           k == eqs[Len(eqs)][1]
       IN  IF k \in Range(front) THEN front ELSE Append(front, k)

\* The value of key k in that dict: the last assignment wins.
DictGet(eqs, k) ==
  LET i == CHOOSE i \in DOMAIN eqs :
             eqs[i][1] = k /\ \A j \in DOMAIN eqs : eqs[j][1] = k => j <= i
  IN  eqs[i][2]

\* The fields Circuit.__init__ sets before it calls check().
CircuitFields(ins, outs, eqs) ==
  LET keys == DictKeys(eqs)
  IN  [inputs |-> Range(ins), outputs |-> Range(outs), keys |-> keys,
       equations |-> [k \in Range(keys) |-> DictGet(eqs, k)],
       valid |-> TRUE]

getInputs(c) == c.inputs

getOutputs(c) == c.outputs

getSignals(c) == c.keys

getEquation(c, x) == c.equations[x]

\* A plausible slip: a signal's own name is dropped from its dependencies.
depsWithoutSelf(c) ==
  [x \in DOMAIN c.equations |-> support(c.equations[x]) \ {x}]

deps(c) == [x \in DOMAIN c.equations |-> support(c.equations[x])]

\* The local function visit of Circuit.check: TRUE when it raises
\* "Combinational loop detected".
RECURSIVE visit(_, _, _)
visit(dp, stack, y) ==
  IF y \in Range(stack) THEN TRUE
  ELSE IF y \notin DOMAIN dp THEN FALSE
  ELSE \E z \in dp[y] : visit(dp, Append(stack, y), z)

\* A plausible slip: the search for loops starts from the outputs only.
LoopDetectedFromOutputs(c) == \E x \in c.outputs : visit(deps(c), <<>>, x)

\* The loop `for x in deps.keys(): visit(x)`.
LoopDetected(c) == \E x \in DOMAIN deps(c) : visit(deps(c), <<>>, x)

\* Circuit.check: the exception it raises, "none" when it returns.
check_circuit(c) ==
  LET signals == c.inputs \cup c.outputs \cup DOMAIN c.equations
  IN  IF \E x \in c.outputs : x \notin DOMAIN c.equations
        THEN "Undefined output"
      ELSE IF \E x \in c.inputs : x \in DOMAIN c.equations
        THEN "Over-constrained input"
      ELSE IF \E x \in DOMAIN c.equations : \E y \in deps(c)[x] : y \notin signals
        THEN "Undefined signal"
      ELSE IF LoopDetected(c)
        THEN "Combinational loop detected"
      ELSE "none"

(***************************************************************************)
(* Circuit.simulate.  `value` is the dictionary of the code: it starts as  *)
(* a copy of the caller's dictionary and memoizes every signal evaluated.  *)
(* A result is [ok, val, value]; ok = FALSE when the code raises (a name   *)
(* that has neither a value nor an equation).                              *)
(***************************************************************************)
RECURSIVE sim(_, _, _)
sim(c, node, value) ==
  CASE node.type = "Literal" -> [ok |-> TRUE, val |-> node.value, value |-> value]
    [] node.type = "Variable" ->
         LET x == node.name
         IN  IF x \in DOMAIN value
               THEN [ok |-> TRUE, val |-> value[x], value |-> value]
             ELSE IF x \notin DOMAIN c.equations
               THEN [ok |-> FALSE, val |-> FALSE, value |-> value]
             ELSE LET r == sim(c, getEquation(c, x), value)
                  IN  [ok |-> r.ok, val |-> r.val,
                       value |-> (x :> r.val) @@ r.value]
    [] node.type = "UnOp" ->
         LET y == sim(c, node.kids[1], value)
         IN  [ok |-> y.ok, val |-> EvalUn(node.op, y.val), value |-> y.value]
    [] node.type = "BinOp" ->
         LET y == sim(c, node.kids[1], value)
             z == sim(c, node.kids[2], y.value)
         IN  [ok |-> y.ok /\ z.ok, val |-> EvalBin(node.op, y.val, z.val),
              value |-> z.value]

\* The loop `for x in signals: value[x] = sim(self.getEquation(x))` over the
\* keys from position i on.
RECURSIVE simSignals(_, _, _)
simSignals(c, i, value) ==
  IF i > Len(c.keys) THEN [ok |-> TRUE, value |-> value]
  ELSE LET x == c.keys[i]
           r == sim(c, getEquation(c, x), value)
       IN  IF ~r.ok THEN [ok |-> FALSE, value |-> r.value]
           ELSE simSignals(c, i + 1, (x :> r.val) @@ r.value)

\* A plausible slip: only the outputs are returned.
simulateOutputsOnly(c, inputs) ==
  LET r == simSignals(c, 1, inputs)
  IN  [ok |-> r.ok, out |-> [s \in DOMAIN r.value \cap c.outputs |-> r.value[s]]]

\* simulate(inputs): [ok, out], out the returned dictionary.
simulate(c, inputs) ==
  LET r == simSignals(c, 1, inputs)
  IN  [ok |-> r.ok,
       out |-> [s \in DOMAIN r.value \cap Range(c.keys) |-> r.value[s]]]

(***************************************************************************)
(* Circuit.clean.  The code rewrites the nodes in place and lets equations *)
(* share subtrees; a substituted subtree holds no collapsed name, so        *)
(* substituting it again leaves it as it is, and the circuit can be kept   *)
(* as the values of its equations.                                         *)
(***************************************************************************)
\* fanout: for every signal, the equations that read it.
fanout(c) ==
  [y \in c.outputs \cup DOMAIN c.equations \cup c.inputs |->
     {x \in DOMAIN c.equations : y \in support(c.equations[x])}]

\* collapse: the signals read by exactly one equation, inputs excepted.
collapse(c) == {x \in DOMAIN fanout(c) : Cardinality(fanout(c)[x]) = 1} \ c.inputs

\* The local function subst of clean, under the equations eqs.
RECURSIVE subst(_, _, _)
subst(eqs, col, nd) ==
  CASE nd.type = "Variable" ->
         IF nd.name \in col THEN subst(eqs, col, eqs[nd.name]) ELSE nd
    [] nd.type = "UnOp" ->
         [nd EXCEPT !.kids = <<subst(eqs, col, nd.kids[1])>>]
    [] nd.type = "BinOp" ->
         [nd EXCEPT !.kids = <<subst(eqs, col, nd.kids[1]), subst(eqs, col, nd.kids[2])>>]
    [] nd.type = "Literal" -> nd

\* The loop `for x in self.getSignals()` of clean from position i of keys.
RECURSIVE substFrom(_, _, _, _)
substFrom(keys, i, col, eqs) ==
  IF i > Len(keys) THEN eqs
  ELSE substFrom(keys, i + 1, col,
                 [eqs EXCEPT ![keys[i]] = subst(eqs, col, eqs[keys[i]])])

\* edges: the pairs (x, y) with y in the support of the equation of x.
edges(eqs) == UNION {{<<x, y>> : y \in support(eqs[x])} : x \in DOMAIN eqs}

\* A plausible slip: the edges are not closed under composition.
closureSkipped(cl) == cl

\* The loop that closes the edges under composition.
RECURSIVE closure(_)
closure(cl) ==
  LET frontier == UNION {{<<e[1], g[2]>> : g \in {h \in cl : h[1] = e[2]}} : e \in cl}
  IN  IF cl = cl \cup frontier THEN cl ELSE closure(cl \cup frontier)

\* A plausible slip: the outputs are not kept out of the dead signals.
deadWithOutputs(c, eqs) ==
  LET signals == c.outputs \cup DOMAIN c.equations \cup c.inputs
      live == {e[2] : e \in {g \in closure(edges(eqs)) : g[1] \in c.outputs}}
  IN  (signals \ live) \ c.inputs

\* dead: the signals no output depends on, for the equations eqs obtained
\* by the substitution.
dead(c, eqs) ==
  LET signals == c.outputs \cup DOMAIN c.equations \cup c.inputs
      live == {e[2] : e \in {g \in closure(edges(eqs)) : g[1] \in c.outputs}}
  IN  ((signals \ live) \ c.inputs) \ c.outputs

\* The sequence q without the elements of S.
Without(q, S) == SelectSeq(q, LAMBDA k : k \notin S)

\* Circuit.clean: the circuit afterwards.
clean(c) ==
  LET removed(eqs) ==
        [c EXCEPT !.keys = Without(c.keys, dead(c, eqs)),
                  !.equations = [k \in DOMAIN eqs \ dead(c, eqs) |-> eqs[k]]]
  IN  removed(substFrom(c.keys, 1, collapse(c), c.equations))

(***************************************************************************)
(* CNF algebra (circuit/cnf.py).  A value is a SatVar (a literal), a       *)
(* Clause or a Cnf; `kind` is what className() returns.  The symbol table  *)
(* SatVar.__vartable__ / SatVar.__nextid__ is threaded through the         *)
(* operators that create variables as tab = [vartable, nextid].            *)
(***************************************************************************)
Max(a, b) == IF a >= b THEN a ELSE b

RECURSIVE ClauseMaxId(_)
ClauseMaxId(lits) ==
  IF lits = <<>> THEN 0 ELSE Max(lits[1].id, ClauseMaxId(Tail(lits)))

RECURSIVE maxvar(_)
maxvar(clauses) ==
  IF clauses = <<>> THEN 0
  ELSE Max(ClauseMaxId(clauses[1].literals), maxvar(Tail(clauses)))

\* The length of the longest clause.
ClauseMaxLen(clauses) ==
  IF clauses = <<>> THEN 0
  ELSE CHOOSE n \in {Len(clauses[i].literals) : i \in DOMAIN clauses} :
         \A i \in DOMAIN clauses : Len(clauses[i].literals) <= n

LitNames(cl) == {cl.literals[i].name : i \in DOMAIN cl.literals}

\* Cnf.__init__
Cnf(clauses) ==
  [kind |-> "Cnf", clauses |-> clauses,
   variables |-> UNION {LitNames(clauses[i]) : i \in DOMAIN clauses},
   maxVar |-> maxvar(clauses)]

\* Clause.__init__
Clause(literals) == [kind |-> "Clause", literals |-> literals]

\* A plausible slip: __nextid__ is not incremented.
SatVarWithoutIncrement(name, tab) ==
  IF name \in DOMAIN tab.vartable
    THEN [var |-> [kind |-> "SatVar", name |-> name, phase |-> TRUE,
                   id |-> tab.vartable[name]],
          tab |-> tab]
    ELSE [var |-> [kind |-> "SatVar", name |-> name, phase |-> TRUE,
                   id |-> tab.nextid],
          tab |-> [vartable |-> (name :> tab.nextid) @@ tab.vartable,
                   nextid |-> tab.nextid]]

\* SatVar.__init__ with a name: [var, tab], the literal made and the symbol
\* table afterwards.  A known name keeps its id; a new one takes __nextid__.
SatVar(name, tab) ==
  IF name \in DOMAIN tab.vartable
    THEN [var |-> [kind |-> "SatVar", name |-> name, phase |-> TRUE,
                   id |-> tab.vartable[name]],
          tab |-> tab]
    ELSE [var |-> [kind |-> "SatVar", name |-> name, phase |-> TRUE,
                   id |-> tab.nextid],
          tab |-> [vartable |-> (name :> tab.nextid) @@ tab.vartable,
                   nextid |-> tab.nextid + 1]]

\* SatVar.__invert__: SatVar(self.name, not self.phase).  The name is in the
\* table already, so the table is unchanged and the id is the same.
Invert(l) == [l EXCEPT !.phase = ~l.phase]

\* Cnf.__and__
Cnf_and(self, other) ==
  CASE other.kind = "Cnf" -> Cnf(self.clauses \o other.clauses)
    [] other.kind = "Clause" -> Cnf(Append(self.clauses, other))
    [] other.kind = "SatVar" -> Cnf(Append(self.clauses, Clause(<<other>>)))

\* Clause.__and__
Clause_and(self, other) ==
  IF other.kind = "Clause" THEN Cnf(<<self, other>>)
  ELSE Cnf_and(Cnf(<<self>>), Cnf(<<Clause(<<other>>)>>))

\* Clause.__or__
Clause_or(self, other) ==
  CASE other.kind = "Clause" -> Clause(self.literals \o other.literals)
    [] other.kind = "SatVar" -> Clause(Append(self.literals, other))

\* SatVar.__or__
SatVar_or(self, other) ==
  CASE other.kind = "SatVar" -> Clause(<<self, other>>)
    [] other.kind = "Clause" -> Clause_or(other, self)

\* SatVar.__and__
SatVar_and(self, other) ==
  CASE other.kind = "SatVar" -> Clause_and(Clause(<<self>>), Clause(<<other>>))
    [] other.kind = "Clause" -> Clause_and(other, self)
    [] other.kind = "Cnf" -> Cnf_and(other, self)

\* x | y and x & y: the method of the left operand's class.
Or(x, y) ==
  CASE x.kind = "SatVar" -> SatVar_or(x, y)
    [] x.kind = "Clause" -> Clause_or(x, y)

And(x, y) ==
  CASE x.kind = "SatVar" -> SatVar_and(x, y)
    [] x.kind = "Clause" -> Clause_and(x, y)
    [] x.kind = "Cnf" -> Cnf_and(x, y)

(***************************************************************************)
(* Gate encodings (adder.py).                                              *)
(***************************************************************************)
mk_or(s, a, b) ==
  And(And(Or(Or(a, b), Invert(s)), Or(s, Invert(a))), Or(s, Invert(b)))

\* A plausible slip: the clause (~s | b) is left out.
mk_and_without_b(s, a, b) ==
  And(Or(Or(Invert(a), Invert(b)), s), Or(Invert(s), a))

mk_and(s, a, b) ==
  And(And(Or(Or(Invert(a), Invert(b)), s), Or(Invert(s), a)), Or(Invert(s), b))

\* A plausible slip: the clause (s | a | ~b) is left out.
mk_xor_without_last(s, a, b) ==
  And(And(Or(Or(Invert(s), a), b),
          Or(Or(Invert(s), Invert(a)), Invert(b))),
      Or(Or(s, Invert(a)), b))

mk_xor(s, a, b) ==
  And(And(And(Or(Or(Invert(s), a), b),
              Or(Or(Invert(s), Invert(a)), Invert(b))),
          Or(Or(s, Invert(a)), b)),
      Or(Or(s, a), Invert(b)))

mk_not(s, a) == And(Or(s, a), Or(Invert(s), Invert(a)))

mk_eq(s, a) == And(Or(s, Invert(a)), Or(Invert(s), a))

\* The encoding of a binary gate by its operator string (the if/elif chains
\* of f and transform).
mk_binop(opstr, s, a, b) ==
  CASE opstr = "&" -> mk_and(s, a, b)
    [] opstr = "^" -> mk_xor(s, a, b)
    [] opstr = "|" -> mk_or(s, a, b)

\* The module variables a, b, cin, s, cout, s0, s1, s2 of adder.py, in the
\* order their SatVars are made when the module is imported.
AdderNames == <<"a", "b", "cin", "s", "cout", "s0", "s1", "s2">>

\* SatVar(n) for every n of names in order: the symbol table afterwards.
RECURSIVE SatVarsIn(_, _)
SatVarsIn(names, tab) ==
  IF names = <<>> THEN tab ELSE SatVarsIn(Tail(names), SatVar(names[1], tab).tab)

\* The SatVar object bound to the module variable n, vt the symbol table.
AdderVar(n, vt) == [kind |-> "SatVar", name |-> n, phase |-> TRUE, id |-> vt[n]]

\* A plausible slip: the gate that drives cout is left out.
mk_adderWithoutCarry(vt) ==
  LET v(n) == AdderVar(n, vt)
  IN  And(And(And(mk_xor(v("s0"), v("a"), v("b")),
                  mk_xor(v("s"), v("cin"), v("s0"))),
              mk_and(v("s1"), v("a"), v("b"))),
          mk_and(v("s2"), v("cin"), v("s0")))

mk_adder(vt) ==
  LET v(n) == AdderVar(n, vt)
  IN  And(And(And(And(mk_xor(v("s0"), v("a"), v("b")),
                      mk_xor(v("s"), v("cin"), v("s0"))),
                  mk_and(v("s1"), v("a"), v("b"))),
              mk_and(v("s2"), v("cin"), v("s0"))),
          mk_or(v("cout"), v("s1"), v("s2")))

\* constrain(cnf, test) of test_adder; the names are in the table already.
constrain(cnf, test, tab) ==
  LET constr(x) == IF test[x] THEN SatVar(x, tab).var ELSE Invert(SatVar(x, tab).var)
  IN  And(And(And(cnf, constr("a")), constr("b")), constr("cin"))

(***************************************************************************)
(* Tseitin transformation (transform.py).                                  *)
(***************************************************************************)
\* f(node, prefix): [s, cnf, tab], the literal that stands for the node, the
\* clauses of its subtree and the symbol table afterwards.
RECURSIVE f(_, _, _)
f(node, prefix, tab) ==
  IF node.type = "Variable"
    THEN LET v == SatVar(prefix \o node.name, tab)
         IN  [s |-> v.var, cnf |-> Cnf(<<>>), tab |-> v.tab]
  ELSE
    LET v == SatVar(prefix \o "s" \o ToString(node.id), tab)
        s == v.var
    IN  CASE node.type = "Literal" ->
               [s |-> s,
                cnf |-> IF node.value THEN And(Cnf(<<>>), s)
                        ELSE And(Cnf(<<>>), Invert(s)),
                tab |-> v.tab]
          [] node.type = "BinOp" ->
               LET a == f(node.kids[1], prefix, v.tab)
                   b == f(node.kids[2], prefix, a.tab)
               IN  [s |-> s,
                    cnf |-> And(And(And(Cnf(<<>>), a.cnf), b.cnf),
                                mk_binop(node.op, s, a.s, b.s)),
                    tab |-> b.tab]
          [] node.type = "UnOp" ->
               LET a == f(node.kids[1], prefix, v.tab)
               IN  [s |-> s,
                    cnf |-> And(And(Cnf(<<>>), a.cnf), mk_not(s, a.s)),
                    tab |-> a.tab]

\* One iteration of the loop of transform: the clauses of signal `key` are
\* conjoined to st.cnf; st = [cnf, tab] is the formula built so far and the
\* symbol table.
transformKey(c, prefix, key, st) ==
  LET v == SatVar(prefix \o key, st.tab)
      s == v.var
      node == getEquation(c, key)
      binop(a, b) == [cnf |-> And(And(And(st.cnf, a.cnf), b.cnf),
                                  mk_binop(node.op, s, a.s, b.s)),
                      tab |-> b.tab]
      second(a) == binop(a, f(node.kids[2], prefix, a.tab))
      unop(a) == [cnf |-> And(And(st.cnf, a.cnf), mk_not(s, a.s)), tab |-> a.tab]
  IN  CASE node.type = "Variable" ->
             LET a == SatVar(prefix \o node.name, v.tab)
             IN  [cnf |-> And(st.cnf, mk_eq(s, a.var)), tab |-> a.tab]
        [] node.type = "Literal" ->
             [cnf |-> And(st.cnf, IF node.value THEN s ELSE Invert(s)),
              tab |-> v.tab]
        [] node.type = "BinOp" -> second(f(node.kids[1], prefix, v.tab))
        [] node.type = "UnOp" -> unop(f(node.kids[1], prefix, v.tab))

\* The loop `for keys in c.getSignals()` from position i on.
RECURSIVE transformFrom(_, _, _, _)
transformFrom(c, prefix, i, st) ==
  IF i > Len(getSignals(c)) THEN st
  ELSE transformFrom(c, prefix, i + 1,
                     transformKey(c, prefix, getSignals(c)[i], st))

\* transform(c, prefix): [cnf, tab].
transform(c, prefix, tab) ==
  transformFrom(c, prefix, 1, [cnf |-> Cnf(<<>>), tab |-> tab])

(***************************************************************************)
(* Solver binding (circuit/cnf.py, Solver.solve).  The back end is         *)
(* Minisat: it reports UNSAT when the formula has no model and some model  *)
(* otherwise; which one is not specified.                                  *)
(***************************************************************************)
\* The names of a set of <<rank, name>> pairs by increasing rank.
RECURSIVE ByRank(_)
ByRank(pairs) ==
  IF pairs = {} THEN <<>>
  ELSE LET p == CHOOSE p \in pairs : \A q \in pairs : p[1] <= q[1]
       IN  <<p[2]>> \o ByRank(pairs \ {p})

\* The names of a sequence of clauses, in order of first occurrence.
NamesInOrder(clauses) ==
  LET names == UNION {LitNames(clauses[i]) : i \in DOMAIN clauses}
      width == 1 + ClauseMaxLen(clauses)
      first(n) == CHOOSE i \in DOMAIN clauses :
                    /\ n \in LitNames(clauses[i])
                    /\ \A j \in 1..(i - 1) : n \notin LitNames(clauses[j])
      within(n, i) == CHOOSE k \in DOMAIN clauses[i].literals :
                        /\ clauses[i].literals[k].name = n
                        /\ \A j \in 1..(k - 1) : clauses[i].literals[j].name # n
  IN  ByRank({<<first(n) * width + within(n, first(n)), n>> : n \in names})

\* Every literal of the clause has a value under m and is false.
Falsified(cl, m) ==
  \A j \in DOMAIN cl.literals :
    /\ cl.literals[j].name \in DOMAIN m
    /\ m[cl.literals[j].name] # cl.literals[j].phase

\* The total extensions of the partial assignment m over the names `order`
\* that falsify no clause of the set cls.
RECURSIVE Extensions(_, _, _)
Extensions(cls, order, m) ==
  IF \E cl \in cls : Falsified(cl, m) THEN {}
  ELSE IF order = <<>> THEN {m}
  ELSE Extensions(cls, Tail(order), (order[1] :> TRUE) @@ m)
       \cup Extensions(cls, Tail(order), (order[1] :> FALSE) @@ m)

\* The models of a Cnf: the assignments of cnf.variables under which every
\* clause has a true literal.
SatModels(cnf) ==
  Extensions(Range(cnf.clauses), NamesInOrder(cnf.clauses), <<>>)

\* Solver.solve(cnf): the Solution objects it can return.  (On a Cnf without
\* clauses the code raises IndexError at `clauses.pop()`; check() always
\* conjoins the clause mitter_output, so that case does not arise here.)
solve(cnf) ==
  LET models == SatModels(cnf)
  IN  IF models = {} THEN {[sat |-> FALSE, assignment |-> <<>>]}
      ELSE {[sat |-> TRUE, assignment |-> m] : m \in models}

(***************************************************************************)
(* Miter and equivalence check (ec.py).                                    *)
(***************************************************************************)
\* The orders in which a Python set can be iterated.
Orderings(S) == {q \in [1..Cardinality(S) -> S] : Range(q) = S}

\* cnf = transform(c1, "c1_") & transform(c2, "c2_")
miterCircuits(c1, c2, tab) ==
  LET both(cnf1, cnf2) == [cnf |-> And(cnf1.cnf, cnf2.cnf), tab |-> cnf2.tab]
      second(cnf1) == both(cnf1, transform(c2, "c2_", cnf1.tab))
  IN  second(transform(c1, "c1_", tab))

\* The loop `for input in c1.getInputs()` from position k of the iteration
\* order ins.
RECURSIVE miterInputs(_, _, _)
miterInputs(ins, k, st) ==
  IF k > Len(ins) THEN st
  ELSE LET mitter_input == SatVar(ins[k], st.tab)
           c1_input == SatVar("c1_" \o ins[k], mitter_input.tab)
           c2_input == SatVar("c2_" \o ins[k], c1_input.tab)
       IN  miterInputs(ins, k + 1,
                       [cnf |-> And(And(st.cnf, mk_eq(mitter_input.var, c1_input.var)),
                                    mk_eq(mitter_input.var, c2_input.var)),
                        tab |-> c2_input.tab])

\* The loop `for i, output in enumerate(outputs)` from index i (from 0) of
\* the list outs; s is the literal mitter_output.
RECURSIVE miterOutputs(_, _, _, _)
miterOutputs(outs, i, s, st) ==
  IF i >= Len(outs) THEN st
  ELSE
    LET n == Len(outs)
        output == outs[i + 1]
        c1_output == SatVar("c1_" \o output, st.tab)
        c2_output == SatVar("c2_" \o output, c1_output.tab)
        xor_output == SatVar("mitter_xor_" \o output, c2_output.tab)
        ors(cnf) ==
          IF i = 1 THEN
            LET or1 == SatVar("mitter_or_1", xor_output.tab)
                ith_or == IF i + 1 = n THEN s ELSE or1.var
                xor_prev == SatVar("mitter_xor_" \o outs[1], or1.tab)
            IN  [cnf |-> And(cnf, mk_or(ith_or, xor_prev.var, xor_output.var)),
                 tab |-> xor_prev.tab]
          ELSE IF i > 1 THEN
            LET ori == SatVar("mitter_or_" \o ToString(i), xor_output.tab)
                ith_or == IF i + 1 = n THEN s ELSE ori.var
                or_prev == SatVar("mitter_or_" \o ToString(i - 1), ori.tab)
            IN  [cnf |-> And(cnf, mk_or(ith_or, or_prev.var, xor_output.var)),
                 tab |-> or_prev.tab]
          ELSE [cnf |-> cnf, tab |-> xor_output.tab]
    IN  miterOutputs(outs, i + 1, s,
                     ors(And(st.cnf, mk_xor(xor_output.var, c1_output.var,
                                            c2_output.var))))

\* Lines 52 to 90: the literal mitter_output is defined from the outputs in
\* the order outs and asserted.
miterOutput(outs, st) ==
  LET s == SatVar("mitter_output", st.tab)
      asserted(mo) == [cnf |-> And(mo.cnf, s.var), tab |-> mo.tab]
  IN  asserted(IF Len(outs) = 1
                 THEN LET c1_output == SatVar("c1_" \o outs[1], s.tab)
                          c2_output == SatVar("c2_" \o outs[1], c1_output.tab)
                      IN  [cnf |-> And(st.cnf, mk_xor(s.var, c1_output.var,
                                                      c2_output.var)),
                           tab |-> c2_output.tab]
                 ELSE miterOutputs(outs, 0, s.var, [cnf |-> st.cnf, tab |-> s.tab]))

\* The formula check() hands to the solver (lines 39 to 90): [cnf, tab].
miter(c1, c2, tab, ins, outs) ==
  miterOutput(outs, miterInputs(ins, 1, miterCircuits(c1, c2, tab)))

\* A plausible slip: only the inputs are compared.
SameInputs(c1, c2) == getInputs(c1) = getInputs(c2)

\* A plausible slip: only the outputs are compared.
SameOutputs(c1, c2) == getOutputs(c1) = getOutputs(c2)

\* The interface test of line 36.
SameInterface(c1, c2) ==
  getInputs(c1) = getInputs(c2) /\ getOutputs(c1) = getOutputs(c2)

\* A plausible slip: the miter is taken as built when the symbol table has
\* the name mitter_output already, and the circuits are reported equivalent.
ec_checkOncePerProcess(c1, c2, tab, ins, outs) ==
  LET results(m) ==
        {IF ~solution.sat
           THEN [verdict |-> TRUE, none |-> TRUE, ce |-> <<>>, tab |-> m.tab,
                 solved |-> TRUE]
           ELSE [verdict |-> FALSE, none |-> FALSE, ce |-> solution.assignment,
                 tab |-> m.tab, solved |-> TRUE]
         : solution \in solve(m.cnf)}
  IN  IF ~SameInterface(c1, c2)
        THEN {[verdict |-> FALSE, none |-> TRUE, ce |-> <<>>, tab |-> tab,
               solved |-> FALSE]}
      ELSE IF "mitter_output" \in DOMAIN tab.vartable
        THEN {[verdict |-> TRUE, none |-> TRUE, ce |-> <<>>, tab |-> tab,
               solved |-> FALSE]}
      ELSE results(miter(c1, c2, tab, ins, outs))

\* check(c1, c2): the results it can give, as [verdict, none, ce, tab,
\* solved]: the returned pair is (verdict, None) when none, (verdict, ce)
\* otherwise; tab is the symbol table afterwards and solved tells whether
\* Solver.solve was called.
ec_check(c1, c2, tab, ins, outs) ==
  LET results(m) ==
        {IF ~solution.sat
           THEN [verdict |-> TRUE, none |-> TRUE, ce |-> <<>>, tab |-> m.tab,
                 solved |-> TRUE]
           ELSE [verdict |-> FALSE, none |-> FALSE, ce |-> solution.assignment,
                 tab |-> m.tab, solved |-> TRUE]
         : solution \in solve(m.cnf)}
  IN  IF ~SameInterface(c1, c2)
        THEN {[verdict |-> FALSE, none |-> TRUE, ce |-> <<>>, tab |-> tab,
               solved |-> FALSE]}
        ELSE results(miter(c1, c2, tab, ins, outs))

(***************************************************************************)
(* CNF objects with identity (circuit/cnf.py).  Clause.__ior__ and         *)
(* Cnf.__iand__ change their object in place, and a Cnf keeps the Clause   *)
(* objects it is given.  heap[k] is the object bound to the k-th variable  *)
(* of a session.  An operand is a literal (kind "SatVar"), a variable of   *)
(* the session [kind |-> "Obj", at |-> k], an object no variable is bound  *)
(* to (a record of kind "Clause" or "Cnf"), or a foreign value (kind       *)
(* "int" or "None").  An entry of cnf.clauses is [at, literals]: at > 0 is *)
(* the Clause object heap[at]; at = 0 is a Clause object that no variable  *)
(* is bound to, which no later |= can reach and which is kept by value.    *)
(***************************************************************************)
Foreign == {"int", "None"}

Obj(k) == [kind |-> "Obj", at |-> k]

\* The object an operand denotes.
Val(h, v) == IF v.kind = "Obj" THEN h[v.at] ELSE v

\* type(v) / v.className()
className(h, v) == Val(h, v).kind

\* The entry of cnf.clauses for the Clause operand v.
Entry(v) ==
  IF v.kind = "Obj" THEN [at |-> v.at, literals |-> <<>>]
  ELSE [at |-> 0, literals |-> v.literals]

\* The Clause objects of a list of entries, as they are in the heap h.
RECURSIVE ClausesAt(_, _)
ClausesAt(h, entries) ==
  IF entries = <<>> THEN <<>>
  ELSE <<IF entries[1].at = 0 THEN Clause(entries[1].literals) ELSE h[entries[1].at]>>
       \o ClausesAt(h, Tail(entries))

\* Cnf.__init__ on a list of Clause objects given by their entries.
Cnf__init__(h, entries) ==
  [kind |-> "Cnf", clauses |-> entries,
   variables |-> Cnf(ClausesAt(h, entries)).variables,
   maxVar |-> maxvar(ClausesAt(h, entries))]

\* What a method does: it returns an object or raises.
Returns(obj) == [raised |-> "none", res |-> obj]

Raises(exc) == [raised |-> exc, res |-> [kind |-> "None"]]

\* Cnf.__and__
Cnf__and__(h, self, other) ==
  CASE className(h, other) = "Cnf" ->
         Returns(Cnf__init__(h, Val(h, self).clauses \o Val(h, other).clauses))
    [] className(h, other) \in Foreign ->
         \* other.className() on a value that has no such method
         Raises("AttributeError")
    [] className(h, other) = "Clause" ->
         Returns(Cnf__init__(h, Append(Val(h, self).clauses, Entry(other))))
    [] className(h, other) = "SatVar" ->
         Returns(Cnf__init__(h, Append(Val(h, self).clauses, Entry(Clause(<<other>>)))))

\* Clause.__and__
Clause__and__(h, self, other) ==
  IF className(h, other) = "Clause"
    THEN Returns(Cnf__init__(h, <<Entry(self), Entry(other)>>))
  ELSE IF className(h, other) # "SatVar"
    \* Cnf([Clause([other])]) reads the attribute name of `other`
    THEN Raises("AttributeError")
  ELSE Cnf__and__(h, Cnf__init__(h, <<Entry(self)>>),
                  Cnf__init__(h, <<Entry(Clause(<<other>>))>>))

\* Clause.__or__
Clause__or__(h, self, other) ==
  CASE className(h, other) = "Clause" ->
         Returns(Clause(Val(h, self).literals \o Val(h, other).literals))
    [] className(h, other) \in Foreign -> Raises("AttributeError")
    [] className(h, other) = "SatVar" ->
         Returns(Clause(Append(Val(h, self).literals, other)))
    [] OTHER -> Raises("TypeError: incompatible types")

\* SatVar.__or__
SatVar__or__(h, self, other) ==
  CASE className(h, other) = "SatVar" -> Returns(Clause(<<self, other>>))
    [] className(h, other) = "Clause" -> Clause__or__(h, other, self)
    [] OTHER -> Raises("TypeError: incompatible types")

\* SatVar.__and__
SatVar__and__(h, self, other) ==
  CASE className(h, other) = "SatVar" ->
         Clause__and__(h, Clause(<<self>>), Clause(<<other>>))
    [] className(h, other) = "Clause" -> Clause__and__(h, other, self)
    [] className(h, other) = "Cnf" -> Cnf__and__(h, other, self)
    [] OTHER -> Raises("TypeError: incompatible types")

\* What an in-place method does: the heap afterwards, or it raises.
Updates(h) == [raised |-> "none", h |-> h]

Fails(exc, h) == [raised |-> exc, h |-> h]

\* Clause.__ior__ on the Clause object heap[self.at]
Clause__ior__(h, self, other) ==
  CASE className(h, other) = "Clause" ->
         Updates([h EXCEPT ![self.at].literals = @ \o Val(h, other).literals])
    [] className(h, other) \in Foreign -> Fails("AttributeError", h)
    [] className(h, other) = "SatVar" ->
         Updates([h EXCEPT ![self.at].literals = Append(@, other)])
    [] OTHER -> Fails("TypeError: incompatible types", h)

\* Cnf.__iand__ on the Cnf object heap[self.at]
Cnf__iand__(h, self, other) ==
  CASE className(h, other) = "Cnf" ->
         Updates([h EXCEPT ![self.at] =
                    [@ EXCEPT !.clauses = @ \o Val(h, other).clauses,
                              !.variables = @ \cup Val(h, other).variables,
                              !.maxVar = Max(@, Val(h, other).maxVar)]])
    [] className(h, other) \in Foreign -> Fails("AttributeError", h)
    [] className(h, other) = "Clause" ->
         Updates([h EXCEPT ![self.at] =
                    [@ EXCEPT !.clauses = Append(@, Entry(other)),
                              !.variables = @ \cup LitNames(Val(h, other)),
                              !.maxVar = Max(@, ClauseMaxId(Val(h, other).literals))]])
    [] className(h, other) = "SatVar" ->
         Updates([h EXCEPT ![self.at] =
                    [@ EXCEPT !.clauses = Append(@, Entry(Clause(<<other>>))),
                              !.variables = @ \cup {other.name},
                              !.maxVar = Max(@, other.id)]])

\* self | other and self & other: the method of the class of self; Cnf has
\* no __or__ and no operand has a reflected method.
BinaryOr(h, self, other) ==
  CASE className(h, self) = "SatVar" -> SatVar__or__(h, self, other)
    [] className(h, self) = "Clause" -> Clause__or__(h, self, other)
    [] className(h, self) = "Cnf" -> Raises("TypeError: unsupported operand")

BinaryAnd(h, self, other) ==
  CASE className(h, self) = "SatVar" -> SatVar__and__(h, self, other)
    [] className(h, self) = "Clause" -> Clause__and__(h, self, other)
    [] className(h, self) = "Cnf" -> Cnf__and__(h, self, other)

\* Solver.solve on a Cnf object: "IndexError" when the list of clauses is
\* empty (clauses.pop()), otherwise the Solutions that can be returned; the
\* assignment of a Solution is over cnf.variables.
Solver_solve(h, cnf) ==
  IF cnf.clauses = <<>> THEN [raised |-> "IndexError", sols |-> {}]
  ELSE [raised |-> "none",
        sols |-> {[sat |-> sol.sat,
                   assignment |-> IF sol.sat
                                    THEN [x \in cnf.variables |-> sol.assignment[x]]
                                    ELSE <<>>]
                  : sol \in solve([clauses |-> ClausesAt(h, cnf.clauses)])}]

\* Solution.__invert__ from position i of `order`, the order in which the
\* dictionary of the assignment is iterated, with bc built so far.  The first
\* literal is bc itself; `bc |= l` on a SatVar is SatVar.__or__, on the Clause
\* it appends.  The names of an assignment are in the symbol table.
RECURSIVE BlockFrom(_, _, _, _, _)
BlockFrom(sol, order, i, tab, bc) ==
  IF i > Len(order) THEN bc
  ELSE LET x == order[i]
           l == IF sol.assignment[x] THEN Invert(SatVar(x, tab).var)
                                       ELSE SatVar(x, tab).var
       IN  BlockFrom(sol, order, i + 1, tab,
                     CASE bc.kind = "None" -> l
                       [] bc.kind = "SatVar" -> Clause(<<bc, l>>)
                       [] bc.kind = "Clause" -> Clause(Append(bc.literals, l)))

\* A plausible slip: the phases of the blocking literals are those of the
\* assignment.
Solution__invert__SamePhase(sol, order, tab) ==
  IF ~sol.sat THEN [kind |-> "None"]
  ELSE BlockFrom([sol EXCEPT !.assignment = [x \in DOMAIN @ |-> ~@[x]]],
                 order, 1, tab, [kind |-> "None"])

Solution__invert__(sol, order, tab) ==
  IF ~sol.sat THEN [kind |-> "None"]
  ELSE BlockFrom(sol, order, 1, tab, [kind |-> "None"])

(***************************************************************************)
(* DIMACS text.  A text is a sequence of characters.                       *)
(***************************************************************************)
Digit == <<"0", "1", "2", "3", "4", "5", "6", "7", "8", "9">>

\* str(n) and '%d' % n for a natural number n
RECURSIVE str(_)
str(n) == IF n < 10 THEN <<Digit[n + 1]>> ELSE Append(str(n \div 10), Digit[(n % 10) + 1])

\* sep.join(parts)
RECURSIVE join(_, _)
join(sep, parts) ==
  IF parts = <<>> THEN <<>>
  ELSE IF Len(parts) = 1 THEN parts[1]
  ELSE parts[1] \o sep \o join(sep, Tail(parts))

\* A plausible slip: the sign of a negative literal is not written.
SatVar_dimacsUnsigned(l) == str(l.id)

\* SatVar.dimacs
SatVar_dimacs(l) == IF l.phase THEN str(l.id) ELSE <<"-">> \o str(l.id)

\* [l.dimacs() for l in self.literals]
RECURSIVE LitTexts(_)
LitTexts(lits) ==
  IF lits = <<>> THEN <<>> ELSE <<SatVar_dimacs(lits[1])>> \o LitTexts(Tail(lits))

\* Clause.dimacs
Clause_dimacs(cl) == join(<<" ">>, LitTexts(cl.literals)) \o <<" ", "0">>

\* [c.dimacs() for c in self.clauses]
RECURSIVE ClauseTexts(_)
ClauseTexts(clauses) ==
  IF clauses = <<>> THEN <<>>
  ELSE <<Clause_dimacs(clauses[1])>> \o ClauseTexts(Tail(clauses))

\* Cnf.dimacs on a Cnf object
Cnf_dimacs(h, cnf) ==
  <<"p", " ", "c", "n", "f", " ">> \o str(cnf.maxVar) \o <<" ">>
    \o str(Len(cnf.clauses)) \o <<"\n">>
    \o join(<<"\n">>, ClauseTexts(ClausesAt(h, cnf.clauses)))

(***************************************************************************)
(* The session: circuits are built, simulated, transformed and compared.   *)
(* `last` records the last call and what it returned or raised.            *)
(***************************************************************************)
Init ==
  /\ nodeNextId = 0
  /\ circ = [s \in Slots |-> NoCircuit]
  /\ vartable = <<>>
  /\ satNextId = 1
  /\ calls = 0
  /\ last = [op |-> "init"]
  /\ heap = <<>>
  /\ gen = [state |-> "none"]

\* c = Circuit(name, inputs, outputs, eqs) for a description of `pool`,
\* bound to the first free circuit variable among `slots`.  The caller creates
\* the nodes, the constructor sets the fields and runs check(); when check()
\* raises, no circuit is bound.
New(pool, slots) ==
  \E d \in pool, s \in slots :
    /\ ~circ[s].valid
    /\ \A t \in slots : t < s => circ[t].valid
    /\ nodeNextId + DescNodeCount(d) <= MaxNodeId
    /\ LET built == DescInit(d, nodeNextId)
           c == CircuitFields(d.inputs, d.outputs, built.eqs)
           exc == check_circuit(c)
       IN  /\ nodeNextId' = built.next
           /\ circ' = IF exc = "none" THEN [circ EXCEPT ![s] = c] ELSE circ
           /\ last' = [op |-> "new", slot |-> s, desc |-> d, raised |-> exc]
    /\ UNCHANGED <<vartable, satNextId, calls, heap, gen>>

\* circ[s].simulate(sigma) for a dictionary giving a Boolean to every input.
Simulate ==
  \E s \in Slots :
    /\ circ[s].valid
    /\ \E sigma \in [getInputs(circ[s]) -> BOOLEAN] :
         LET r == simulate(circ[s], sigma)
         IN  last' = [op |-> "simulate", slot |-> s, inputs |-> sigma,
                      ok |-> r.ok, out |-> r.out]
    /\ UNCHANGED <<nodeNextId, circ, vartable, satNextId, calls, heap, gen>>

\* circ[s].clean()
Clean ==
  \E s \in Slots :
    /\ circ[s].valid
    /\ circ' = [circ EXCEPT ![s] = clean(circ[s])]
    /\ last' = [op |-> "clean", slot |-> s, before |-> circ[s]]
    /\ UNCHANGED <<nodeNextId, vartable, satNextId, calls, heap, gen>>

\* The prefixes transform is called with.
Prefixes == {"", "c1_"}

\* cnf = transform(circ[s], p)
TransformUpTo(n) ==
  \E s \in Slots, p \in Prefixes :
    /\ circ[s].valid
    /\ calls < n
    /\ \E r \in {transform(circ[s], p, [vartable |-> vartable, nextid |-> satNextId])} :
         /\ vartable' = r.tab.vartable
         /\ satNextId' = r.tab.nextid
         /\ last' = [op |-> "transform", slot |-> s, prefix |-> p, cnf |-> r.cnf]
    /\ calls' = calls + 1
    /\ UNCHANGED <<nodeNextId, circ, heap, gen>>

Transform == TransformUpTo(MaxCalls)

\* (verdict, ce) = check(circ[i], circ[j])
CheckUpTo(n) ==
  \E i \in Slots, j \in Slots :
    /\ circ[i].valid /\ circ[j].valid
    /\ calls < n
    /\ \E ins \in Orderings(getInputs(circ[i])), outs \in Orderings(getOutputs(circ[i])) :
         \E r \in ec_check(circ[i], circ[j],
                           [vartable |-> vartable, nextid |-> satNextId], ins, outs) :
           /\ vartable' = r.tab.vartable
           /\ satNextId' = r.tab.nextid
           /\ last' = [op |-> "check", c1 |-> i, c2 |-> j, verdict |-> r.verdict,
                       none |-> r.none, ce |-> r.ce, solved |-> r.solved]
    /\ calls' = calls + 1
    /\ UNCHANGED <<nodeNextId, circ, heap, gen>>

Check == CheckUpTo(MaxCalls)

(***************************************************************************)
(* Descriptions compared by check().                                       *)
(***************************************************************************)
Va == Variable("a")

Vb == Variable("b")

EcDescs ==
  { \* o = a & b, and the same function with other gates
    Desc(<<"a", "b">>, <<"o">>, << <<"o", BinOp("&", Va, Vb)>> >>),
    Desc(<<"a", "b">>, <<"o">>,
         << <<"o", UnOp("~", BinOp("|", UnOp("~", Va), UnOp("~", Vb)))>> >>),
    \* another function of the same interface
    Desc(<<"a", "b">>, <<"o">>, << <<"o", BinOp("|", Va, Vb)>> >>),
    \* no output
    Desc(<<"a", "b">>, <<>>, << <<"t", BinOp("&", Va, Vb)>> >>),
    \* two outputs: a half adder, a variant of it and a faulty one
    Desc(<<"a", "b">>, <<"o", "p">>,
         << <<"o", BinOp("^", Va, Vb)>>, <<"p", BinOp("&", Va, Vb)>> >>),
    Desc(<<"a", "b">>, <<"o", "p">>,
         << <<"p", BinOp("&", Vb, Va)>>,
            <<"o", BinOp("&", BinOp("|", Va, Vb), UnOp("~", Variable("p")))>> >>),
    Desc(<<"a", "b">>, <<"o", "p">>,
         << <<"o", BinOp("^", Va, Vb)>>, <<"p", Vb>> >>),
    \* three outputs
    Desc(<<"a">>, <<"o", "p", "q">>,
         << <<"o", Va>>, <<"p", UnOp("~", Va)>>, <<"q", Literal(TRUE)>> >>),
    Desc(<<"a">>, <<"o", "p", "q">>,
         << <<"o", Va>>, <<"p", UnOp("~", Va)>>, <<"q", BinOp("|", Va, Literal(FALSE))>> >>),
    \* another input set
    Desc(<<"a", "c">>, <<"o">>, << <<"o", BinOp("&", Va, Variable("c"))>> >>),
    \* an input whose name begins with the prefix given to the first circuit
    Desc(<<"a", "c1_t">>, <<"o">>,
         << <<"t", Va>>, <<"o", BinOp("&", Variable("t"), Variable("c1_t"))>> >>),
    Desc(<<"a", "c1_t">>, <<"o">>, << <<"o", Va>> >>) }

Next == New(EcDescs, Slots) \/ Check

Spec == Init /\ [][Next]_vars

(***************************************************************************)
(* Descriptions handed to transform().                                     *)
(***************************************************************************)
TDescs ==
  { \* one gate, nested gates
    Desc(<<"a", "b">>, <<"o">>, << <<"o", BinOp("&", Va, Vb)>> >>),
    Desc(<<"a", "b">>, <<"o">>,
         << <<"o", UnOp("~", BinOp("|", UnOp("~", Va), UnOp("~", Vb)))>> >>),
    \* an internal signal, an equation that is a Variable, a Literal operand
    Desc(<<"a", "b">>, <<"o", "p">>,
         << <<"t", BinOp("^", Va, Vb)>>,
            <<"o", Variable("t")>>,
            <<"p", BinOp("|", BinOp("&", Va, Vb),
                         BinOp("&", Variable("t"), Literal(TRUE)))>> >>),
    \* equations that are Literals
    Desc(<<"a">>, <<"o", "p">>,
         << <<"o", Literal(FALSE)>>, <<"p", Literal(TRUE)>> >>),
    \* an input no equation reads
    Desc(<<"a", "b">>, <<"o">>, << <<"o", Va>> >>),
    \* a signal named like the auxiliary variable of an anonymous node
    Desc(<<"a">>, <<"o">>,
         << <<"s8", UnOp("~", Va)>>,
            <<"o", BinOp("^", BinOp("&", Va, Va), Variable("s8"))>> >>),
    \* no signal at all
    Desc(<<>>, <<>>, <<>>) }

NextTransform == New(TDescs, Slots) \/ Transform

SpecTransform == Init /\ [][NextTransform]_vars

(***************************************************************************)
(* Descriptions given to the constructor when validation is examined:      *)
(* every combination of the input lists, output lists and optional         *)
(* equations below, and two descriptions that define a signal twice.       *)
(***************************************************************************)
OptEq(k, exprs) == {<<>>} \cup {<< <<k, e>> >> : e \in exprs}

VDescs ==
  {Desc(ins, outs, ex \o ey \o ez) :
     ins \in {<<>>, <<"a">>, <<"a", "y">>},
     outs \in {<<>>, <<"x">>},
     ex \in OptEq("x", {Variable("a"), Variable("y"),
                        BinOp("&", Variable("x"), Variable("a"))}),
     ey \in OptEq("y", {Variable("z"), Literal(TRUE)}),
     ez \in OptEq("z", {UnOp("~", Variable("y"))})}
  \cup
  {Desc(<<"a">>, <<"x">>, << <<"x", Variable("x")>>, <<"x", Variable("a")>> >>),
   Desc(<<"a">>, <<"x">>, << <<"x", Variable("a")>>, <<"x", Variable("x")>> >>),
   \* signals read once, read twice and read by no output
   Desc(<<"a", "b">>, <<"o", "p">>,
        << <<"t", BinOp("^", Va, Vb)>>,
           <<"u", UnOp("~", Variable("t"))>>,
           <<"o", BinOp("&", Variable("u"), Va)>>,
           <<"p", BinOp("|", Variable("t"), Vb)>>,
           <<"w", BinOp("&", Variable("o"), Variable("p"))>> >>),
   \* outputs that read n through m, both read twice, and u, read once
   Desc(<<"a">>, <<"o", "p">>,
        << <<"n", UnOp("~", Va)>>,
           <<"m", UnOp("~", Variable("n"))>>,
           <<"q", BinOp("|", Variable("n"), Va)>>,
           <<"u", UnOp("~", Variable("m"))>>,
           <<"o", BinOp("&", Variable("u"), Va)>>,
           <<"p", BinOp("|", Variable("m"), Va)>> >>)}

NextCircuit == New(VDescs, {1}) \/ Simulate \/ Clean

SpecCircuit == Init /\ [][NextCircuit]_vars

\* c.simulate(d) for a dictionary d that gives a value to every input and to
\* some of the circuit's own signals as well.
SimulateWithExtraKeys ==
  \E s \in Slots :
    /\ circ[s].valid
    /\ \E extra \in SUBSET DOMAIN circ[s].equations :
         /\ Cardinality(extra) <= MaxExtraKeys
         /\ \E d \in [getInputs(circ[s]) \cup extra -> BOOLEAN] :
              \E r \in {simulate(circ[s], d)} :
                last' = [op |-> "simulate", slot |-> s, inputs |-> d,
                         ok |-> r.ok, out |-> r.out]
    /\ UNCHANGED <<nodeNextId, circ, vartable, satNextId, calls, heap, gen>>

NextSimulate == New(VDescs, {1}) \/ SimulateWithExtraKeys

SpecSimulate == Init /\ [][NextSimulate]_vars

(***************************************************************************)
(* The full adder test (test.py, test_adder).                              *)
(***************************************************************************)
\* Names of SatVars a session may make before it runs the test.
EarlyNames == {"s0", "cout", "q"}

\* SatVar(n)
NewSatVar(pool) ==
  \E n \in pool :
    /\ \E r \in {SatVar(n, [vartable |-> vartable, nextid |-> satNextId])} :
         /\ vartable' = r.tab.vartable
         /\ satNextId' = r.tab.nextid
         /\ last' = [op |-> "SatVar", name |-> n, id |-> r.var.id]
    /\ UNCHANGED <<nodeNextId, circ, calls, heap, gen>>

\* One round of test_adder: the import of adder (its SatVars are made the
\* first time), mk_adder(), constrain and solve for one of the tests.
TestAdder ==
  \E test \in [{"a", "b", "cin"} -> BOOLEAN] :
    \E tab \in {SatVarsIn(AdderNames, [vartable |-> vartable, nextid |-> satNextId])} :
      \E sols \in {solve(constrain(mk_adder(tab.vartable), test, tab))} :
        \E sat \in sols :
          /\ vartable' = tab.vartable
          /\ satNextId' = tab.nextid
          /\ last' = [op |-> "test_adder", test |-> test, sat |-> sat.sat,
                      assignment |-> sat.assignment, nsols |-> Cardinality(sols)]
          /\ UNCHANGED <<nodeNextId, circ, calls, heap, gen>>

NextAdder == NewSatVar(EarlyNames) \/ TestAdder

SpecAdder == Init /\ [][NextAdder]_vars

(***************************************************************************)
(* A process that has made SatVars, transformed circuits or checked them   *)
(* before it checks two circuits: SatVar.__vartable__ and __nextid__ live  *)
(* as long as the process (cnf.py 146-147).                                *)
(***************************************************************************)
\* The calls of transform and check one process makes.
MaxProcessCalls == 2

\* The name of an earlier SatVar: one that check uses itself.
ProcessNames == {"mitter_output"}

ProcessDescs ==
  { Desc(<<"a", "b">>, <<"o">>, << <<"o", BinOp("&", Va, Vb)>> >>),
    Desc(<<"a", "b">>, <<"o">>, << <<"o", BinOp("|", Va, Vb)>> >>),
    Desc(<<"a", "b">>, <<"o", "p">>,
         << <<"o", BinOp("^", Va, Vb)>>, <<"p", BinOp("&", Va, Vb)>> >>) }

NextProcess ==
  \/ New(ProcessDescs, Slots)
  \/ NewSatVar(ProcessNames \ DOMAIN vartable)
  \/ TransformUpTo(MaxProcessCalls)
  \/ CheckUpTo(MaxProcessCalls)

SpecProcess == Init /\ [][NextProcess]_vars

(***************************************************************************)
(* A session that builds single gates (adder.py 29-47): the module's       *)
(* SatVars exist once adder is imported; some of them, negated or not, are *)
(* handed to one of the gate builders.                                     *)
(***************************************************************************)
GateNames == {"a", "b", "s"}

Gates == {"and", "or", "xor", "not", "eq"}

\* The state after `import adder`.
InitGates ==
  /\ nodeNextId = 0
  /\ circ = [s \in Slots |-> NoCircuit]
  /\ \E tab \in {SatVarsIn(AdderNames, [vartable |-> <<>>, nextid |-> 1])} :
       vartable = tab.vartable /\ satNextId = tab.nextid
  /\ calls = 0
  /\ last = [op |-> "init"]
  /\ heap = <<>>
  /\ gen = [state |-> "none"]

\* The module variable n and its negation.
GateLiterals ==
  {IF ph THEN AdderVar(n, vartable) ELSE Invert(AdderVar(n, vartable)) :
     n \in GateNames, ph \in BOOLEAN}

mk_gate(g, s, a, b) ==
  CASE g = "and" -> mk_and(s, a, b)
    [] g = "or" -> mk_or(s, a, b)
    [] g = "xor" -> mk_xor(s, a, b)
    [] g = "not" -> mk_not(s, a)
    [] g = "eq" -> mk_eq(s, a)

MkGate ==
  \E g \in Gates :
    \E s \in GateLiterals, a \in GateLiterals, b \in GateLiterals :
      /\ g \in {"not", "eq"} => b = a
      /\ \E cnf \in {mk_gate(g, s, a, b)} :
           last' = [op |-> "gate", gate |-> g, s |-> s, a |-> a, b |-> b,
                    cnf |-> cnf]
      /\ UNCHANGED <<nodeNextId, circ, vartable, satNextId, calls, heap, gen>>

NextGates == MkGate

SpecGates == InitGates /\ [][NextGates]_vars

(***************************************************************************)
(* A session of the CNF algebra: SatVars are made, combined into Clause    *)
(* and Cnf objects bound to variables, formulas are dumped, solved and     *)
(* enumerated.                                                             *)
(***************************************************************************)
\* Names given to SatVar in such a session.
CnfNames == {"x", "y"}

\* SatVar() calls made before such a session begins: the SatVars of the
\* session then take ids of one and of two digits.
EarlierSatVars == 8

\* SatVar(): the name is 'SatVar__<__nextid__>'.
SatVarAnonymous(tab) == SatVar("SatVar__" \o ToString(tab.nextid), tab)

\* The symbol table after n calls of SatVar() from tab on.
RECURSIVE AfterAnonymous(_, _)
AfterAnonymous(n, tab) ==
  IF n = 0 THEN tab ELSE AfterAnonymous(n - 1, SatVarAnonymous(tab).tab)

\* The session begins with the symbol table that EarlierSatVars calls of
\* SatVar() leave.
InitCnf ==
  /\ nodeNextId = 0
  /\ circ = [s \in Slots |-> NoCircuit]
  /\ \E tab \in {AfterAnonymous(EarlierSatVars, [vartable |-> <<>>, nextid |-> 1])} :
       vartable = tab.vartable /\ satNextId = tab.nextid
  /\ calls = 0
  /\ last = [op |-> "init"]
  /\ heap = <<>>
  /\ gen = [state |-> "none"]

\* The SatVar objects a session combines: SatVar(n) for the names of CnfNames
\* made so far.  Negative literals come from the blocking clauses.
Literals(vt) ==
  {[kind |-> "SatVar", name |-> n, phase |-> TRUE, id |-> vt[n]] :
     n \in DOMAIN vt \cap CnfNames}

Operands == Literals(vartable) \cup {Obj(k) : k \in DOMAIN heap}

ForeignOperands == {[kind |-> "int"], [kind |-> "None"]}

\* The size of an object is within the bounds of the model.
Fits(obj) ==
  CASE obj.kind = "Clause" -> Len(obj.literals) <= MaxLits
    [] obj.kind = "Cnf" -> Len(obj.clauses) <= MaxClauses

\* A session may bind one more variable to an object of the kind of obj.
Room(h, obj) ==
  Cardinality({k \in DOMAIN h : h[k].kind = obj.kind})
    < (IF obj.kind = "Clause" THEN MaxClauseVars ELSE MaxCnfVars)

\* F = Cnf()
NewCnf ==
  /\ gen.state = "none"
  /\ Room(heap, Cnf__init__(heap, <<>>))
  /\ heap' = Append(heap, Cnf__init__(heap, <<>>))
  /\ last' = [op |-> "Cnf"]
  /\ UNCHANGED <<nodeNextId, circ, vartable, satNextId, calls, gen>>

\* v = l | r and v = l & r, v a new variable of the session.
Combine ==
  \E opr \in {"|", "&"}, l \in Operands, r \in Operands \cup ForeignOperands :
    \E out \in {IF opr = "|" THEN BinaryOr(heap, l, r) ELSE BinaryAnd(heap, l, r)} :
      /\ gen.state = "none"
      /\ out.raised = "none" => Room(heap, out.res) /\ Fits(out.res)
      /\ heap' = IF out.raised = "none" THEN Append(heap, out.res) ELSE heap
      /\ last' = [op |-> opr, left |-> className(heap, l), right |-> className(heap, r),
                  raised |-> out.raised]
      /\ UNCHANGED <<nodeNextId, circ, vartable, satNextId, calls, gen>>

\* l |= r on a Clause and l &= r on a Cnf: the object is changed in place.
CombineInPlace ==
  \E l \in {Obj(k) : k \in DOMAIN heap}, r \in Operands \cup ForeignOperands :
    \E out \in {IF className(heap, l) = "Clause" THEN Clause__ior__(heap, l, r)
                                                 ELSE Cnf__iand__(heap, l, r)} :
      /\ gen.state = "none"
      /\ Fits(out.h[l.at])
      /\ heap' = out.h
      /\ last' = [op |-> IF className(heap, l) = "Clause" THEN "|=" ELSE "&=",
                  left |-> className(heap, l), right |-> className(heap, r),
                  raised |-> out.raised]
      /\ UNCHANGED <<nodeNextId, circ, vartable, satNextId, calls, gen>>

\* l |= r and l &= r where the class of l has no in-place method: Python
\* evaluates l | r, l & r and binds the result.
CombineAndRebind ==
  \E opr \in {"|=", "&="}, l \in Operands, r \in Operands \cup ForeignOperands :
    /\ gen.state = "none"
    /\ className(heap, l) # (IF opr = "|=" THEN "Clause" ELSE "Cnf")
    /\ \E out \in {IF opr = "|=" THEN BinaryOr(heap, l, r) ELSE BinaryAnd(heap, l, r)} :
         /\ out.raised = "none" => Room(heap, out.res) /\ Fits(out.res)
         /\ heap' = IF out.raised = "none" THEN Append(heap, out.res) ELSE heap
         /\ last' = [op |-> opr, left |-> className(heap, l), right |-> className(heap, r),
                  raised |-> out.raised]
    /\ UNCHANGED <<nodeNextId, circ, vartable, satNextId, calls, gen>>

\* text = F.dimacs()
Dimacs ==
  \E k \in DOMAIN heap :
    /\ heap[k].kind = "Cnf"
    /\ last' = [op |-> "dimacs", at |-> k, text |-> Cnf_dimacs(heap, heap[k])]
    /\ UNCHANGED <<nodeNextId, circ, vartable, satNextId, calls, heap, gen>>

\* sigma = Solver().solve(F); G = F & ~sigma
Block ==
  \E k \in DOMAIN heap :
    /\ gen.state = "none"
    /\ heap[k].kind = "Cnf"
    /\ \E sol \in Solver_solve(heap, heap[k]).sols :
         /\ sol.sat
         /\ \E order \in Orderings(DOMAIN sol.assignment) :
              \E bc \in {Solution__invert__(sol, order,
                                            [vartable |-> vartable, nextid |-> satNextId])} :
                \E out \in {BinaryAnd(heap, Obj(k), bc)} :
                  last' = [op |-> "block", at |-> k, sigma |-> sol.assignment,
                           bc |-> bc, raised |-> out.raised, res |-> out.res]
    /\ UNCHANGED <<nodeNextId, circ, vartable, satNextId, calls, heap, gen>>

\* g = allSAT(F): the generator is made; its body has not run yet.
StartAllSAT ==
  \E k \in DOMAIN heap :
    /\ heap[k].kind = "Cnf"
    /\ gen.state = "none"
    /\ gen' = [state |-> "created", cnf |-> k, yielded |-> <<>>,
               start |-> heap[k]]
    /\ last' = [op |-> "allSAT", at |-> k]
    /\ UNCHANGED <<nodeNextId, circ, vartable, satNextId, calls, heap>>

\* The part of the body of allSAT after a yield of a solution: the heap after
\* `block = ~solution; cnf &= block`, or what it raises.
afterYield(h, g, order, tab) ==
  IF g.state = "created" THEN Updates(h)
  ELSE Cnf__iand__(h, Obj(g.cnf),
                   Solution__invert__([sat |-> TRUE,
                                       assignment |-> g.yielded[Len(g.yielded)]],
                                      order, tab))

\* next(g): the body of allSAT runs up to its next yield.  Once the solver
\* has found the formula unsatisfiable the body stays in its inner loop
\* `while True: yield None`.
NextAllSAT ==
  \/ /\ gen.state \in {"created", "yielded"}
     /\ \E order \in Orderings(IF gen.state = "created" THEN {}
                               ELSE DOMAIN gen.yielded[Len(gen.yielded)]) :
          \E upd \in {afterYield(heap, gen, order,
                                 [vartable |-> vartable, nextid |-> satNextId])} :
            \E found \in {IF upd.raised = "none" THEN Solver_solve(upd.h, upd.h[gen.cnf])
                          ELSE [raised |-> upd.raised, sols |-> {}]} :
              /\ heap' = upd.h
              /\ IF found.raised # "none"
                   THEN /\ gen' = [gen EXCEPT !.state = "failed"]
                        /\ last' = [op |-> "next", raised |-> found.raised,
                                    yields |-> "nothing"]
                   ELSE \E sol \in found.sols :
                          /\ gen' = IF sol.sat
                                      THEN [gen EXCEPT !.state = "yielded",
                                                       !.yielded = Append(@, sol.assignment)]
                                      ELSE [gen EXCEPT !.state = "exhausted"]
                          /\ last' = [op |-> "next", raised |-> "none",
                                      yields |-> IF sol.sat THEN "Solution" ELSE "None"]
     /\ UNCHANGED <<nodeNextId, circ, vartable, satNextId, calls>>
  \/ /\ gen.state = "exhausted"
     /\ last' = [op |-> "next", raised |-> "none", yields |-> "None"]
     /\ UNCHANGED <<nodeNextId, circ, vartable, satNextId, calls, heap, gen>>

NextCnf ==
  \/ NewSatVar(CnfNames \ DOMAIN vartable)
  \/ NewCnf
  \/ Combine
  \/ CombineInPlace
  \/ CombineAndRebind
  \/ Dimacs
  \/ Block
  \/ StartAllSAT
  \/ NextAllSAT

SpecCnf == InitCnf /\ [][NextCnf]_vars

(***************************************************************************)
(* A session that makes and negates SatVars.                               *)
(***************************************************************************)
\* Names given to SatVar; one of them is a name SatVar() can make up.
SatVarNames == {"x", "y", "SatVar__2"}

\* SatVar()
NewAnonymousSatVar ==
  /\ satNextId <= MaxSatVars
  /\ \E r \in {SatVarAnonymous([vartable |-> vartable, nextid |-> satNextId])} :
       /\ vartable' = r.tab.vartable
       /\ satNextId' = r.tab.nextid
       /\ last' = [op |-> "SatVar", name |-> r.var.name, id |-> r.var.id]
  /\ UNCHANGED <<nodeNextId, circ, calls, heap, gen>>

\* ~v for a SatVar v made before: SatVar(v.name, not v.phase)
Negate ==
  \E n \in DOMAIN vartable, b \in BOOLEAN :
    /\ \E r \in {SatVar(n, [vartable |-> vartable, nextid |-> satNextId])} :
         /\ vartable' = r.tab.vartable
         /\ satNextId' = r.tab.nextid
         /\ last' = [op |-> "invert", name |-> n, id |-> r.var.id, phase |-> ~b]
    /\ UNCHANGED <<nodeNextId, circ, calls, heap, gen>>

NextSatVar == NewSatVar(SatVarNames) \/ NewAnonymousSatVar \/ Negate

SpecSatVar == Init /\ [][NextSatVar]_vars

(***************************************************************************)
(* Well-formedness of a circuit, stated on the dependency relation.        *)
(***************************************************************************)
DepEdges(c) ==
  UNION {{<<x, y>> : y \in support(c.equations[x])} : x \in DOMAIN c.equations}

RECURSIVE TransitiveClosure(_)
TransitiveClosure(R) ==
  LET step == R \cup UNION {{<<e[1], g[2]>> : g \in {h \in R : h[1] = e[2]}} : e \in R}
  IN  IF step = R THEN R ELSE TransitiveClosure(step)

Acyclic(c) == \A e \in TransitiveClosure(DepEdges(c)) : e[1] # e[2]

WellFormed(c) ==
  /\ c.outputs \subseteq DOMAIN c.equations
  /\ c.inputs \cap DOMAIN c.equations = {}
  /\ \A k \in DOMAIN c.equations :
       support(c.equations[k]) \subseteq c.inputs \cup DOMAIN c.equations
  /\ Acyclic(c)

\* C10: every circuit the constructor returned satisfies the four invariants
\* (outputs defined, inputs unconstrained, closed support, acyclic), and the
\* constructor raised, binding no circuit, exactly when the description
\* violates one of them.
C10_ConstructorInvariants ==
  /\ \A s \in Slots : circ[s].valid => WellFormed(circ[s])
  /\ last.op = "new" =>
       /\ (last.raised # "none") <=>
            ~WellFormed(CircuitFields(last.desc.inputs, last.desc.outputs, last.desc.eqs))
       /\ last.raised # "none" => ~circ[last.slot].valid
       /\ last.raised = "none" => circ[last.slot].valid

\* A description whose only fault is a loop among signals no output reads was
\* rejected.
C10_Witness ==
  /\ last.op = "new"
  /\ last.raised = "Combinational loop detected"
  /\ ~LoopDetectedFromOutputs(
        CircuitFields(last.desc.inputs, last.desc.outputs, last.desc.eqs))

\* The first three checks of Circuit.check pass on c.
PassesNameChecks(c) ==
  /\ c.outputs \subseteq DOMAIN c.equations
  /\ c.inputs \cap DOMAIN c.equations = {}
  /\ \A k \in DOMAIN c.equations :
       support(c.equations[k]) \subseteq c.inputs \cup c.outputs \cup DOMAIN c.equations

\* C11: a description that passes the first three checks and has a cycle
\* among its defined signals (a self-loop included) makes the constructor
\* raise "Combinational loop detected" and binds no circuit; one without a
\* cycle is accepted.  The search returned in both cases.
C11_EveryCycleIsCaught ==
  last.op = "new" =>
    LET c == CircuitFields(last.desc.inputs, last.desc.outputs, last.desc.eqs)
    IN  PassesNameChecks(c) =>
          IF Acyclic(c)
            THEN last.raised = "none"
            ELSE last.raised = "Combinational loop detected" /\ ~circ[last.slot].valid

\* A description whose only cycle is a signal that reads itself was rejected.
C11_Witness ==
  /\ last.op = "new"
  /\ last.raised = "Combinational loop detected"
  /\ LET c == CircuitFields(last.desc.inputs, last.desc.outputs, last.desc.eqs)
     IN  /\ \E k \in DOMAIN c.equations : k \in support(c.equations[k])
         /\ \A e \in TransitiveClosure(DepEdges(c)) : e[1] = e[2] => <<e[1], e[1]>> \in DepEdges(c)

\* The value of an expression of c under the input assignment sigma, every
\* signal standing for its equation.
RECURSIVE ValueOf(_, _, _)
ValueOf(c, nd, sigma) ==
  CASE nd.type = "Literal" -> nd.value
    [] nd.type = "Variable" ->
         IF nd.name \in DOMAIN sigma THEN sigma[nd.name]
         ELSE ValueOf(c, c.equations[nd.name], sigma)
    [] nd.type = "UnOp" -> ~ValueOf(c, nd.kids[1], sigma)
    [] nd.type = "BinOp" ->
         CASE nd.op = "&" -> ValueOf(c, nd.kids[1], sigma) /\ ValueOf(c, nd.kids[2], sigma)
           [] nd.op = "|" -> ValueOf(c, nd.kids[1], sigma) \/ ValueOf(c, nd.kids[2], sigma)
           [] nd.op = "^" -> ValueOf(c, nd.kids[1], sigma) # ValueOf(c, nd.kids[2], sigma)

\* C12: for a circuit the constructor returned and a dictionary giving a
\* Boolean to each input, simulate returns without raising a dictionary whose
\* keys are exactly the outputs and the equation keys, each with the value of
\* its equation under the inputs.
C12_SimulateIsTotalAndExact ==
  last.op = "simulate" =>
    LET c == circ[last.slot]
    IN  /\ last.ok
        /\ DOMAIN last.out = c.outputs \cup DOMAIN c.equations
        /\ \A k \in DOMAIN last.out :
             last.out[k] = ValueOf(c, c.equations[k], last.inputs)

\* A circuit with a signal that is not an output and that another equation
\* reads was simulated.
C12_Witness ==
  /\ last.op = "simulate"
  /\ last.ok
  /\ \E k \in DOMAIN circ[last.slot].equations :
       /\ k \notin circ[last.slot].outputs
       /\ \E j \in DOMAIN circ[last.slot].equations :
            k \in support(circ[last.slot].equations[j])

\* C13: for each of the 8 values of (a, b, cin), mk_adder() with the three
\* input literals is satisfiable and has exactly one model, in which
\* s = a xor b xor cin and cout = (a and b) or ((a xor b) and cin).
C13_AdderIsFunctional ==
  last.op = "test_adder" =>
    LET a == last.test["a"]
        b == last.test["b"]
        cin == last.test["cin"]
    IN  /\ last.sat
        /\ last.nsols = 1
        /\ {"a", "b", "cin", "s", "cout"} \subseteq DOMAIN last.assignment
        /\ last.assignment["a"] = a /\ last.assignment["b"] = b
        /\ last.assignment["cin"] = cin
        /\ last.assignment["s"] = ((a # b) # cin)
        /\ last.assignment["cout"] = ((a /\ b) \/ ((a # b) /\ cin))

\* A round with a carry and no sum, in a session that made a SatVar first.
C13_Witness ==
  /\ last.op = "test_adder"
  /\ last.test["a"] /\ last.test["b"] /\ ~last.test["cin"]
  /\ last.sat /\ last.assignment["cout"] /\ ~last.assignment["s"]
  /\ vartable["a"] > 1

\* The symbol table maps the names made so far one-to-one onto 1..N, and
\* __nextid__ is N + 1.
TableIsBijection ==
  LET N == Cardinality(DOMAIN vartable)
  IN  /\ \A m, n \in DOMAIN vartable : vartable[m] = vartable[n] => m = n
      /\ {vartable[n] : n \in DOMAIN vartable} = 1..N
      /\ satNextId = N + 1

\* A step keeps every entry, gives a new name the next id, and the SatVar it
\* returns has the id of its name.
TableGrowsInOrder ==
  /\ \A n \in DOMAIN vartable : n \in DOMAIN vartable' /\ vartable'[n] = vartable[n]
  /\ \A n \in DOMAIN vartable' \ DOMAIN vartable :
       vartable'[n] = Cardinality(DOMAIN vartable) + 1
  /\ Cardinality(DOMAIN vartable') <= Cardinality(DOMAIN vartable) + 1
  /\ last'.op \in {"SatVar", "invert"} => last'.id = vartable'[last'.name]

\* C14: after any sequence of SatVar constructions and negations the symbol
\* table is a one-to-one map from the names made so far onto 1..N, the ids
\* were handed out in order of first creation from 1 on, and no entry ever
\* changes.
C14_SymbolTableIsStable == []TableIsBijection /\ [][TableGrowsInOrder]_vars

\* A name made again after two others, and a negation, keep the first id.
C14_Witness ==
  /\ Cardinality(DOMAIN vartable) >= 3
  /\ last.op \in {"SatVar", "invert"}
  /\ last.id = 1
  /\ "SatVar__2" \in DOMAIN vartable /\ vartable["SatVar__2"] # 2

\* The literals of the clauses of the Cnf object heap[k], as they are now.
LiteralsOf(h, k) ==
  UNION {Range(cl.literals) : cl \in Range(ClausesAt(h, h[k].clauses))}

\* C15: after any sequence of &, &=, | and |= every Cnf has maxVar equal to
\* the largest id among the literals of its clauses (0 when it has none) and
\* variables equal to the set of the names of those literals.
C15_CnfFieldsMatchClauses ==
  \A k \in DOMAIN heap :
    heap[k].kind = "Cnf" =>
      /\ \A l \in LiteralsOf(heap, k) : l.id <= heap[k].maxVar
      /\ heap[k].maxVar = 0 \/ \E l \in LiteralsOf(heap, k) : l.id = heap[k].maxVar
      /\ heap[k].variables = {l.name : l \in LiteralsOf(heap, k)}

\* The satisfying assignments of a Cnf object: the assignments of the names
\* of its literals under which every clause has a true literal.
Models(h, cnf) == SatModels([clauses |-> ClausesAt(h, cnf.clauses)])

\* The literals of a blocking value.
BlockLiterals(bc) ==
  CASE bc.kind = "SatVar" -> <<bc>>
    [] bc.kind = "Clause" -> bc.literals
    [] OTHER -> <<>>

\* The Cnf object has the fields Cnf.__init__ would give it now.
UpToDate(h, cnf) == cnf = Cnf__init__(h, cnf.clauses)

\* C16: for a solution sigma of a satisfiable F, ~sigma is the disjunction of
\* ~V(x) for the x that sigma makes true and V(x) for the others, and the
\* models of F & ~sigma are the models of F other than sigma.
C16_BlockingExcludesExactlySigma ==
  last.op = "block" =>
    /\ Range(BlockLiterals(last.bc)) =
         {[kind |-> "SatVar", name |-> x, phase |-> ~last.sigma[x], id |-> vartable[x]] :
            x \in DOMAIN last.sigma}
    /\ Len(BlockLiterals(last.bc)) = Cardinality(DOMAIN last.sigma)
    /\ last.raised = "none"
    /\ Models(heap, last.res) = Models(heap, heap[last.at]) \ {last.sigma}

\* The same for the formulas whose fields match their clauses.
C16_OnUpToDateFormulas ==
  (last.op = "block" /\ UpToDate(heap, heap[last.at])) =>
    C16_BlockingExcludesExactlySigma

\* C17: the enumeration loop of allSAT returns no assignment twice.
C17_NoAssignmentTwice ==
  gen.state # "none" =>
    \A i, j \in DOMAIN gen.yielded : i # j => gen.yielded[i] # gen.yielded[j]

\* The loop returned every model of a formula that has three and then found
\* the formula unsatisfiable.
C17_Witness ==
  /\ gen.state = "exhausted"
  /\ Len(gen.yielded) = 3
  /\ \E k \in DOMAIN heap : heap[k].kind = "Clause"

(***************************************************************************)
(* A reader of DIMACS text, written from the format and not from the code  *)
(* that writes it: lines are split at newlines, words at spaces, and a     *)
(* word is read digit by digit.                                            *)
(***************************************************************************)
RECURSIVE SplitAt(_, _)
SplitAt(text, sep) ==
  IF \A i \in DOMAIN text : text[i] # sep THEN <<text>>
  ELSE LET i == CHOOSE i \in DOMAIN text :
                  text[i] = sep /\ \A j \in 1..(i - 1) : text[j] # sep
       IN  <<SubSeq(text, 1, i - 1)>> \o SplitAt(SubSeq(text, i + 1, Len(text)), sep)

DigitValue(c) ==
  CASE c = "0" -> 0 [] c = "1" -> 1 [] c = "2" -> 2 [] c = "3" -> 3 [] c = "4" -> 4
    [] c = "5" -> 5 [] c = "6" -> 6 [] c = "7" -> 7 [] c = "8" -> 8 [] c = "9" -> 9
    [] OTHER -> -1

IsNumber(w) == w # <<>> /\ \A i \in DOMAIN w : DigitValue(w[i]) >= 0

RECURSIVE ReadNumber(_)
ReadNumber(w) ==
  IF Len(w) = 1 THEN DigitValue(w[1])
  ELSE 10 * ReadNumber(SubSeq(w, 1, Len(w) - 1)) + DigitValue(w[Len(w)])

IsSigned(w) == IsNumber(w) \/ (w # <<>> /\ w[1] = "-" /\ IsNumber(Tail(w)))

ReadSigned(w) == IF w[1] = "-" THEN 0 - ReadNumber(Tail(w)) ELSE ReadNumber(w)

\* The clauses of a text, each a sequence of signed numbers: the lines after
\* the header, each without its closing 0.
ReadClauses(text) ==
  LET lines == SplitAt(text, "\n")
      words(i) == SplitAt(lines[i], " ")
  IN  [i \in {k \in 1..(Len(lines) - 1) : lines[k + 1] # <<>>} |->
         [j \in 1..(Len(words(i + 1)) - 1) |-> ReadSigned(words(i + 1)[j])]]

\* C18: dimacs() returns the line 'p cnf <maxVar> <number of clauses>' and
\* then one line per clause, in order, with the literals in order as ids, a
\* '-' before the id of a negative literal, and ' 0' at the end; the formula
\* read back from the text has the satisfying assignments, over the ids,
\* of the formula dumped.
C18_DimacsFormatAndRoundTrip ==
  last.op = "dimacs" =>
    LET F == heap[last.at]
        cls == ClausesAt(heap, F.clauses)
        lines == SplitAt(last.text, "\n")
        header == SplitAt(lines[1], " ")
        read == ReadClauses(last.text)
        ids == {l.id : l \in LiteralsOf(heap, last.at)}
    IN  /\ Len(header) = 4
        /\ header[1] = <<"p">> /\ header[2] = <<"c", "n", "f">>
        /\ IsNumber(header[3]) /\ ReadNumber(header[3]) = F.maxVar
        /\ IsNumber(header[4]) /\ ReadNumber(header[4]) = Len(cls)
        /\ IF cls = <<>> THEN lines = <<lines[1], <<>> >> ELSE Len(lines) = 1 + Len(cls)
        /\ \A i \in DOMAIN cls :
             LET words == SplitAt(lines[i + 1], " ")
             IN  /\ Len(words) = Len(cls[i].literals) + 1
                 /\ words[Len(words)] = <<"0">>
                 /\ \A j \in DOMAIN cls[i].literals :
                      /\ IsSigned(words[j])
                      /\ ReadSigned(words[j]) =
                           (IF cls[i].literals[j].phase THEN cls[i].literals[j].id
                                                        ELSE 0 - cls[i].literals[j].id)
        /\ DOMAIN read = DOMAIN cls
        /\ \A alpha \in [ids -> BOOLEAN] :
             (\A i \in DOMAIN read : \E j \in DOMAIN read[i] :
                 \/ read[i][j] > 0 /\ read[i][j] \in ids /\ alpha[read[i][j]]
                 \/ read[i][j] < 0 /\ (0 - read[i][j]) \in ids /\ ~alpha[0 - read[i][j]])
             <=>
             (\A i \in DOMAIN cls : \E j \in DOMAIN cls[i].literals :
                 alpha[cls[i].literals[j].id] = cls[i].literals[j].phase)

\* A dump with a negative literal, an id of one digit and an id of two.
C18_Witness ==
  /\ last.op = "dimacs"
  /\ \E i \in DOMAIN ReadClauses(last.text) :
       \E j, k \in DOMAIN ReadClauses(last.text)[i] :
         /\ ReadClauses(last.text)[i][j] < 0 - 9
         /\ ReadClauses(last.text)[i][k] \in 1..9
  /\ \E i \in DOMAIN last.text : last.text[i] = "-"

\* C19: |, &, |= and &= between a SatVar, a Clause or a Cnf and an operand
\* that is none of these raise TypeError('incompatible types'), whatever the
\* kind of the left operand, and change neither the objects nor the symbol
\* table.
C19_ForeignOperandRaisesTypeError ==
  [][(last'.op \in {"|", "&", "|=", "&="} /\ last'.right \in Foreign)
       => /\ last'.raised = "TypeError: incompatible types"
          /\ heap' = heap
          /\ vartable' = vartable /\ satNextId' = satNextId]_vars

\* C21: after clean() the circuit still has every output among its equation
\* keys, no input among them, every name read by a remaining equation among
\* its inputs and remaining keys, and no cycle.
C21_CleanKeepsInvariants ==
  last.op = "clean" => WellFormed(circ[last.slot])

\* clean() deleted a signal that an equation read before, and kept a signal
\* that an output reads only through another signal.
C21_Witness ==
  /\ last.op = "clean"
  /\ \E k \in DOMAIN last.before.equations \ DOMAIN circ[last.slot].equations :
       \E j \in DOMAIN last.before.equations : k \in support(last.before.equations[j])
  /\ \E k \in DOMAIN circ[last.slot].equations :
       /\ k \notin circ[last.slot].outputs
       /\ \A o \in circ[last.slot].outputs : k \notin support(circ[last.slot].equations[o])

\* An assignment restricted to the names of S it gives a value to.
Restrict(mu, S) == [x \in S \cap DOMAIN mu |-> mu[x]]

\* C27: simulate returns the same dictionary for two dictionaries that agree
\* on the input names, also when one of them has more keys, which name
\* outputs or internal signals.
C27_SimulateDependsOnInputsOnly ==
  last.op = "simulate" =>
    LET c == circ[last.slot]
    IN  /\ last.ok = simulate(c, Restrict(last.inputs, getInputs(c))).ok
        /\ last.out = simulate(c, Restrict(last.inputs, getInputs(c))).out

\* The same for the dictionaries whose keys are the input names.
C27_OnInputDictionaries ==
  (last.op = "simulate" /\ DOMAIN last.inputs = getInputs(circ[last.slot])) =>
    C27_SimulateDependsOnInputsOnly

\* The names that occur in the clauses of a Cnf object.
NamesOf(h, cnf) ==
  UNION {LitNames(ClausesAt(h, cnf.clauses)[i]) : i \in DOMAIN cnf.clauses}

\* C26: allSAT yields every model of the formula it was given exactly once,
\* then the solver finds the formula unsatisfiable and every later step
\* yields None; the blocking clauses add no variable to the formula.
C26_AllSATIsExhaustive ==
  gen.state # "none" =>
    /\ gen.state # "failed"
    /\ \A i \in DOMAIN gen.yielded : gen.yielded[i] \in Models(heap, gen.start)
    /\ \A i, j \in DOMAIN gen.yielded : i # j => gen.yielded[i] # gen.yielded[j]
    /\ gen.state = "exhausted" =>
         /\ Range(gen.yielded) = Models(heap, gen.start)
         /\ last.op = "next" => last.yields = "None"
    /\ heap[gen.cnf].variables = gen.start.variables
    /\ NamesOf(heap, heap[gen.cnf]) = NamesOf(heap, gen.start)

\* The same for a formula whose fields match its clauses and that has a
\* clause.
C26_OnUpToDateFormulas ==
  (gen.state # "none" /\ UpToDate(heap, gen.start) /\ gen.start.clauses # <<>>) =>
    C26_AllSATIsExhaustive

\* C25: SatVar() returns a variable whose id no variable made before has,
\* whatever names the earlier SatVar constructions had.
C25_AnonymousSatVarIsFresh ==
  [][NewAnonymousSatVar =>
       /\ last'.id \notin {vartable[n] : n \in DOMAIN vartable}
       /\ last'.name \notin DOMAIN vartable]_vars

\* The nodes of the tree under nd, nd included.
RECURSIVE subtree(_)
subtree(nd) ==
  {nd} \cup UNION {subtree(nd.kids[i]) : i \in DOMAIN nd.kids}

\* The anonymous nodes of a circuit: the operator nodes and the constants
\* below the root of an equation (f is called on them by transform).
anonymous(c) ==
  {nd \in UNION {subtree(getEquation(c, k)) \ {getEquation(c, k)} :
                   k \in DOMAIN c.equations} : nd.type # "Variable"}

\* C24: in transform(C, p) the auxiliary name of an anonymous node is not
\* the name p+k of an input or of an equation key k of C, and two distinct
\* anonymous nodes have different auxiliary names.
C24_AuxiliaryNamesAreFresh ==
  last.op = "transform" =>
    LET c == circ[last.slot]
        aux(nd) == f(nd, last.prefix, [vartable |-> vartable, nextid |-> satNextId]).s.name
    IN  \A nd \in anonymous(c) :
          /\ \A k \in getInputs(c) \cup DOMAIN c.equations :
               aux(nd) # last.prefix \o k
          /\ \A other \in anonymous(c) : other # nd => aux(other) # aux(nd)

\* Auxiliary names are distinct from each other in any case.
C24_AuxiliaryNamesDiffer ==
  last.op = "transform" =>
    LET c == circ[last.slot]
        aux(nd) == f(nd, last.prefix, [vartable |-> vartable, nextid |-> satNextId]).s.name
    IN  \A nd \in anonymous(c) :
          \A other \in anonymous(c) : other # nd => aux(other) # aux(nd)

\* C30: the verdict of check(C1, C2) is the verdict the same check gives in
\* a process that has made no SatVar, whatever SatVars, transforms and
\* checks came before it.
C30_VerdictIgnoresSymbolTable ==
  last.op = "check" =>
    \A ins \in Orderings(getInputs(circ[last.c1])),
       outs \in Orderings(getOutputs(circ[last.c1])) :
      \A r \in ec_check(circ[last.c1], circ[last.c2],
                        [vartable |-> <<>>, nextid |-> 1], ins, outs) :
        r.verdict = last.verdict

\* A check that found a difference, after another call and after a SatVar
\* named mitter_output was made as the first of the process.
C30_Witness ==
  /\ last.op = "check" /\ last.solved /\ ~last.verdict
  /\ calls = 2
  /\ ProcessNames \subseteq DOMAIN vartable
  /\ vartable["mitter_output"] = 1

\* C29: a check of circuits whose inputs or outputs differ changes nothing:
\* no SAT variable is created (table and next id stay), no transform and no
\* solver runs, the circuits stay; and no check changes a circuit.
C29_CheckChangesNothingOnMismatch ==
  [][last'.op = "check" =>
       /\ circ' = circ
       /\ nodeNextId' = nodeNextId
       /\ (\/ getInputs(circ[last'.c1]) # getInputs(circ[last'.c2])
           \/ getOutputs(circ[last'.c1]) # getOutputs(circ[last'.c2])) =>
            /\ vartable' = vartable
            /\ satNextId' = satNextId
            /\ ~last'.solved]_vars

\* A check of circuits with different inputs and equal outputs has returned
\* and the symbol table is as it was before any SatVar was made.
C29_Witness ==
  /\ last.op = "check"
  /\ getInputs(circ[last.c1]) # getInputs(circ[last.c2])
  /\ getOutputs(circ[last.c1]) = getOutputs(circ[last.c2])
  /\ last.none /\ ~last.verdict
  /\ vartable = <<>> /\ satNextId = 1

\* The variable names of each role in the miter of check(c1, c2).
MiterRoles(c1, c2) ==
  LET tab == [vartable |-> vartable, nextid |-> satNextId]
      signals(c, p) == {p \o k : k \in getInputs(c) \cup DOMAIN c.equations}
      auxiliaries(c, p) == {f(nd, p, tab).s.name : nd \in anonymous(c)}
      n == Cardinality(getOutputs(c1))
  IN  << getInputs(c1),
         signals(c1, "c1_"), signals(c2, "c2_"),
         auxiliaries(c1, "c1_"), auxiliaries(c2, "c2_"),
         {"mitter_xor_" \o o : o \in getOutputs(c1)},
         {"mitter_or_" \o ToString(i) : i \in 1..(n - 1)},
         {"mitter_output"} >>

\* C28: in the miter check builds, names of different roles (inputs, c1_ and
\* c2_ signals, Tseitin auxiliaries, mitter_xor_, mitter_or_, mitter_output)
\* never coincide.
C28_MiterRolesAreDisjoint ==
  (last.op = "check" /\ last.solved) =>
    LET roles == MiterRoles(circ[last.c1], circ[last.c2])
    IN  \A i, j \in DOMAIN roles : i # j => roles[i] \cap roles[j] = {}

\* The names check itself generates never coincide with each other.
C28_GeneratedNamesAreDisjoint ==
  (last.op = "check" /\ last.solved) =>
    LET roles == MiterRoles(circ[last.c1], circ[last.c2])
    IN  \A i, j \in 6..8 : i # j => roles[i] \cap roles[j] = {}

\* The value of a literal under a total assignment of the names.
LiteralValue(l, m) == m[l.name] = l.phase

\* Every clause of the Cnf has a true literal under m.
Satisfies(cnf, m) ==
  \A i \in DOMAIN cnf.clauses :
    \E j \in DOMAIN cnf.clauses[i].literals :
      LiteralValue(cnf.clauses[i].literals[j], m)

\* C23: the Cnf a gate builder returns for the literals s, a, b is satisfied
\* by exactly the assignments with s = a /\ b (mk_and), s = a \/ b (mk_or),
\* s = a xor b (mk_xor), s = ~a (mk_not), s = a (mk_eq).
C23_GateCnfEncodesGate ==
  last.op = "gate" =>
    \A m \in [GateNames -> BOOLEAN] :
      LET s == LiteralValue(last.s, m)
          a == LiteralValue(last.a, m)
          b == LiteralValue(last.b, m)
      IN  Satisfies(last.cnf, m) <=>
            CASE last.gate = "and" -> s = (a /\ b)
              [] last.gate = "or" -> s = (a \/ b)
              [] last.gate = "xor" -> s = (a # b)
              [] last.gate = "not" -> s = ~a
              [] last.gate = "eq" -> s = a

\* An exclusive or of a negated literal and a positive one, on three names.
C23_Witness ==
  /\ last.op = "gate" /\ last.gate = "xor"
  /\ Cardinality({last.s.name, last.a.name, last.b.name}) = 3
  /\ ~last.a.phase /\ last.b.phase
  /\ Len(last.cnf.clauses) = 4

\* A gate whose output literal is the negation of one of its inputs.
C23_WitnessSharedName ==
  /\ last.op = "gate" /\ last.gate = "and"
  /\ last.s.name = last.a.name /\ last.s.phase # last.a.phase

\* The literals of an operand of |, and the clauses of an operand of &.
LiteralsOfOperand(h, v) == IF v.kind = "SatVar" THEN <<v>> ELSE Val(h, v).literals

ClausesOfOperand(h, v) ==
  CASE className(h, v) = "SatVar" -> <<Clause(<<v>>)>>
    [] className(h, v) = "Clause" -> <<Val(h, v)>>
    [] className(h, v) = "Cnf" -> ClausesAt(h, Val(h, v).clauses)

\* C22: x | y lists the literals of x and then those of y, and x & y lists
\* the clauses of x and then those of y, whatever the kinds of x and y.
C22_OperandOrderKept ==
  \A x, y \in Operands :
    /\ BinaryOr(heap, x, y).raised = "none" =>
         BinaryOr(heap, x, y).res.literals
           = LiteralsOfOperand(heap, x) \o LiteralsOfOperand(heap, y)
    /\ BinaryAnd(heap, x, y).raised = "none" =>
         ClausesAt(heap, BinaryAnd(heap, x, y).res.clauses)
           = ClausesOfOperand(heap, x) \o ClausesOfOperand(heap, y)

\* The same for a left operand that is not a SatVar.
C22_OrderKeptUnlessLeftIsSatVar ==
  \A x, y \in Operands :
    (className(heap, x) # "SatVar" \/ className(heap, y) = "SatVar") =>
      /\ BinaryOr(heap, x, y).raised = "none" =>
           BinaryOr(heap, x, y).res.literals
             = LiteralsOfOperand(heap, x) \o LiteralsOfOperand(heap, y)
      /\ BinaryAnd(heap, x, y).raised = "none" =>
           ClausesAt(heap, BinaryAnd(heap, x, y).res.clauses)
             = ClausesOfOperand(heap, x) \o ClausesOfOperand(heap, y)

\* C20: after clean(), simulate gives every output the value it gave before,
\* under every total input assignment.
C20_CleanPreservesOutputs ==
  last.op = "clean" =>
    \A sigma \in [getInputs(last.before) -> BOOLEAN] :
      LET was == simulate(last.before, sigma)
          now == simulate(circ[last.slot], sigma)
      IN  /\ now.ok
          /\ \A o \in getOutputs(last.before) :
               o \in DOMAIN now.out /\ now.out[o] = was.out[o]

\* clean() rewrote the equation of an output and deleted a signal.
C20_Witness ==
  /\ last.op = "clean"
  /\ DOMAIN circ[last.slot].equations # DOMAIN last.before.equations
  /\ \E o \in getOutputs(last.before) :
       /\ o \in DOMAIN circ[last.slot].equations
       /\ circ[last.slot].equations[o] # last.before.equations[o]
       /\ last.before.equations[o].type = "BinOp"

(***************************************************************************)
(* Properties of check() (ec.py), stated on the state after a call.        *)
(***************************************************************************)
\* The outputs simulate computes for c under the total input assignment sigma.
Outputs(c, sigma) ==
  LET r == simulate(c, sigma)
  IN  [o \in getOutputs(c) |-> r.out[o]]

\* c1 and c2 agree on every output under every total input assignment.
Equivalent(c1, c2) ==
  \A sigma \in [getInputs(c1) -> BOOLEAN] :
    \A o \in getOutputs(c1) : Outputs(c1, sigma)[o] = Outputs(c2, sigma)[o]

\* The two circuits have the same input names and the same output names.
SameNames(c1, c2) == c1.inputs = c2.inputs /\ c1.outputs = c2.outputs

\* C1: for circuits of equal input names and equal output names, check
\* returns (True, None) exactly when the two circuits agree on every output
\* under every total input assignment, and (False, ce) with a counterexample
\* otherwise.
C1_VerdictIsEquivalence ==
  (last.op = "check" /\ SameNames(circ[last.c1], circ[last.c2])) =>
    IF Equivalent(circ[last.c1], circ[last.c2])
      THEN last.verdict /\ last.none
      ELSE ~last.verdict /\ ~last.none

\* C2: check(C, C) returns (True, None) for every circuit the constructor
\* returned.
C2_CheckIsReflexive ==
  (last.op = "check" /\ last.c1 = last.c2) => (last.verdict /\ last.none)

\* C3: when check returns (False, ce) with a counterexample, ce gives a
\* Boolean to every input name of the first circuit, and the two circuits
\* simulated on ce restricted to the input names differ on some output.
C3_CounterexampleDistinguishes ==
  (last.op = "check" /\ ~last.verdict /\ ~last.none) =>
    LET c1 == circ[last.c1]
        c2 == circ[last.c2]
        sigma == Restrict(last.ce, getInputs(c1))
    IN  /\ \A x \in getInputs(c1) : x \in DOMAIN last.ce /\ last.ce[x] \in BOOLEAN
        /\ \E o \in getOutputs(c1) : Outputs(c1, sigma)[o] # Outputs(c2, sigma)[o]

\* The verdicts check(c1, c2) can return when it is called in this state.
Verdicts(c1, c2) ==
  {r.verdict : r \in UNION {ec_check(c1, c2, [vartable |-> vartable, nextid |-> satNextId],
                                     ins, outs) :
                              ins \in Orderings(getInputs(c1)),
                              outs \in Orderings(getOutputs(c1))}}

\* C4: check(C2, C1) returns the verdict check(C1, C2) returned.
C4_VerdictIsSymmetric ==
  last.op = "check" => Verdicts(circ[last.c2], circ[last.c1]) = {last.verdict}

\* C5: when the input names or the output names of the two circuits differ,
\* check returns (False, None) and the solver is not called.
C5_InterfaceMismatch ==
  (last.op = "check" /\ ~SameNames(circ[last.c1], circ[last.c2])) =>
    (~last.verdict /\ last.none /\ ~last.solved)

\* check was called on two circuits of equal inputs and different outputs.
C5_Witness ==
  /\ last.op = "check"
  /\ getInputs(circ[last.c1]) = getInputs(circ[last.c2])
  /\ getOutputs(circ[last.c1]) # getOutputs(circ[last.c2])
  /\ ~last.verdict /\ last.none

(***************************************************************************)
(* Properties of transform() (transform.py), stated on the state after a   *)
(* call: last.cnf is the formula returned for circ[last.slot] under        *)
(* last.prefix.                                                            *)
(***************************************************************************)
\* The input assignment a model of the formula stands for.
InputsOf(mu, c, prefix) ==
  [x \in {y \in getInputs(c) : prefix \o y \in DOMAIN mu} |-> mu[prefix \o x]]

\* C6: in every model of transform(C, p), the variable p+o of every output o
\* has the value simulate computes for o from the model's input values.
C6_ModelsFollowSimulation ==
  last.op = "transform" =>
    LET c == circ[last.slot]
    IN  \A mu \in SatModels(last.cnf) :
          \A o \in getOutputs(c) :
            /\ last.prefix \o o \in DOMAIN mu
            /\ mu[last.prefix \o o] = Outputs(c, InputsOf(mu, c, last.prefix))[o]

\* A circuit with an output computed through an anonymous gate was
\* transformed and the formula has models.
C6_Witness ==
  /\ last.op = "transform"
  /\ SatModels(last.cnf) # {}
  /\ \E o \in getOutputs(circ[last.slot]) :
       /\ getEquation(circ[last.slot], o).type = "BinOp"
       /\ getEquation(circ[last.slot], o).kids[1].type = "BinOp"

\* C7: for every total input assignment sigma, transform(C, p) has a model
\* that gives p+x the value sigma(x) for every input x (an input that does
\* not occur in the formula is not constrained by it).
C7_EveryInputVectorExtends ==
  last.op = "transform" =>
    LET c == circ[last.slot]
    IN  \A sigma \in [getInputs(c) -> BOOLEAN] :
          \E mu \in SatModels(last.cnf) :
            \A x \in getInputs(c) :
              last.prefix \o x \in DOMAIN mu => mu[last.prefix \o x] = sigma[x]

\* C8: transform(C, p) has exactly 2^|inputs(C)| models over its variables.
C8_ModelCount ==
  last.op = "transform" =>
    Cardinality(SatModels(last.cnf)) = 2 ^ Cardinality(getInputs(circ[last.slot]))

\* C9: every input, every output and every named signal k of C occurs in
\* transform(C, p).variables as p+k.
C9_EverySignalIsAVariable ==
  last.op = "transform" =>
    LET c == circ[last.slot]
    IN  \A k \in getInputs(c) \cup getOutputs(c) \cup Range(getSignals(c)) :
          last.prefix \o k \in last.cnf.variables

====
